---- MODULE Spec2Model ----
(***************************************************************************)
(* Model of the transaction-processing engine: the Amount / Account /      *)
(* Transaction state machine (src/model, src/engine/state.rs) and the      *)
(* Listener / Handler message-passing engine (src/engine/server.rs,        *)
(* src/engine/handler.rs).                                                 *)
(***************************************************************************)
EXTENDS Integers, Sequences, FiniteSets, TLC

(***************************************************************************)
(* Bounds of the model.                                                    *)
(***************************************************************************)
\* Amounts are counted in whole units; AmountMax stands for Decimal::MAX,
\* scaled down so that the arithmetic bound is reachable.
AmountMax == 3
\* Account ids are 1..MaxAccountId, transaction ids 1..MaxTxId.
MaxAccountId == 2
MaxTxId == 2

AmountMin == 0 - AmountMax
AmountZero == 0

AccountIds == 1..MaxAccountId
TxIds == 1..MaxTxId

(***************************************************************************)
(* State of the engine and history variables.                              *)
(***************************************************************************)
VARIABLES
    accounts,     \* Listener.accounts: DashMap<ClientId, State>
    tx_handlers,  \* Listener.tx_handlers: ClientId -> index of the Handler
    rx,           \* the Listener inbox (mpsc channel of server::Command)
    rx_closed,    \* every Sender of the Listener inbox has been dropped
    listener,     \* position and locals of Listener::run
    handlers,     \* the spawned Handler tasks with their inboxes
    replies,      \* the account lists sent on the GetAccountsState channels
    submitted,    \* numbers of commands the producer has submitted
    received,     \* history: per account, the records the Listener received
    handled,      \* history: per account, the records its Handlers consumed
    applied,      \* history: per account and id, successful deposits/withdrawals
    last,         \* history: the last Transaction::apply, with the state before
    charged_back, \* history: per account, the deposits charged back
    plan,         \* the input of a planned run and the two positions to exchange
    run,          \* which of the two planned runs is on, and the first's snapshot
    conversion    \* a record handed to try_from, and the result once converted

vars == <<accounts, tx_handlers, rx, rx_closed, listener, handlers, replies,
          submitted, received, handled, applied, last, charged_back, plan, run, conversion>>

engine_vars == <<tx_handlers, rx, rx_closed, listener, handlers, replies,
                 submitted, received, handled, plan, run, conversion>>

(***************************************************************************)
(* Amount (src/model/amount.rs).  An Option<Amount> is a record with a     *)
(* some flag.                                                              *)
(***************************************************************************)
None == [some |-> FALSE, val |-> 0]
Some(v) == [some |-> TRUE, val |-> v]

InRange(v) == v >= AmountMin /\ v <= AmountMax

checked_add_saturating(lhs, rhs) ==
    IF InRange(lhs + rhs) THEN Some(lhs + rhs)
    ELSE IF lhs + rhs > AmountMax THEN Some(AmountMax) ELSE Some(AmountMin)

checked_add(lhs, rhs) ==
    IF InRange(lhs + rhs) THEN Some(lhs + rhs) ELSE None

checked_sub(lhs, rhs) ==
    IF InRange(lhs - rhs) THEN Some(lhs - rhs) ELSE None

\* An f64 input is modelled by an integer; the ones outside the decimal
\* range (such as f64::MAX) have no Amount.
from_f64(x) == IF InRange(x) THEN Some(x) ELSE None

(***************************************************************************)
(* Account (src/model/account.rs).  Every mutator returns the error kind   *)
(* ("Ok" on success) together with the account as the call leaves it.      *)
(***************************************************************************)
AccountNew(id) ==
    [id |-> id, available |-> AmountZero, held |-> AmountZero,
     total |-> AmountZero, locked |-> FALSE]

AcctResult(e, acct) == [err |-> e, account |-> acct]

account_deposit_unlocked(acct, amount) ==
    IF amount <= AmountZero THEN AcctResult("InvalidInput", acct)
    ELSE LET a1 == checked_add(acct.available, amount) IN
         IF ~a1.some THEN AcctResult("Overflow", acct)
         ELSE LET acct1 == [acct EXCEPT !.available = a1.val]
                  t1 == checked_add(acct1.total, amount) IN
              IF ~t1.some THEN AcctResult("Overflow", acct1)
              ELSE AcctResult("Ok", [acct1 EXCEPT !.total = t1.val])

account_deposit(acct, amount) ==
    IF amount <= AmountZero THEN AcctResult("InvalidInput", acct)
    ELSE IF acct.locked THEN AcctResult("Locked", acct)
    ELSE LET a1 == checked_add(acct.available, amount) IN
         IF ~a1.some THEN AcctResult("Overflow", acct)
         ELSE LET acct1 == [acct EXCEPT !.available = a1.val]
                  t1 == checked_add(acct1.total, amount) IN
              IF ~t1.some THEN AcctResult("Overflow", acct1)
              ELSE AcctResult("Ok", [acct1 EXCEPT !.total = t1.val])

account_dispute_unlocked(acct, amount) ==
    IF amount <= AmountZero THEN AcctResult("InvalidInput", acct)
    ELSE LET avail_diff == checked_sub(acct.available, amount) IN
         IF ~avail_diff.some THEN AcctResult("Overflow", acct)
         ELSE IF avail_diff.val < AmountZero THEN AcctResult("InsufficientFunds", acct)
         ELSE LET h1 == checked_add(acct.held, amount) IN
              IF ~h1.some THEN AcctResult("Overflow", acct)
              ELSE AcctResult("Ok", [acct EXCEPT !.held = h1.val,
                                                 !.available = avail_diff.val])

account_dispute_no_hold(acct, amount) ==
    IF amount <= AmountZero THEN AcctResult("InvalidInput", acct)
    ELSE IF acct.locked THEN AcctResult("Locked", acct)
    ELSE LET avail_diff == checked_sub(acct.available, amount) IN
         IF ~avail_diff.some THEN AcctResult("Overflow", acct)
         ELSE IF avail_diff.val < AmountZero THEN AcctResult("InsufficientFunds", acct)
         ELSE AcctResult("Ok", [acct EXCEPT !.available = avail_diff.val])

account_dispute_unchecked(acct, amount) ==
    IF amount <= AmountZero THEN AcctResult("InvalidInput", acct)
    ELSE IF acct.locked THEN AcctResult("Locked", acct)
    ELSE LET avail_diff == checked_sub(acct.available, amount) IN
         IF ~avail_diff.some THEN AcctResult("Overflow", acct)
         ELSE LET h1 == checked_add(acct.held, amount) IN
              IF ~h1.some THEN AcctResult("Overflow", acct)
              ELSE AcctResult("Ok", [acct EXCEPT !.held = h1.val,
                                                 !.available = avail_diff.val])

account_dispute(acct, amount) ==
    IF amount <= AmountZero THEN AcctResult("InvalidInput", acct)
    ELSE IF acct.locked THEN AcctResult("Locked", acct)
    ELSE LET avail_diff == checked_sub(acct.available, amount) IN
         IF ~avail_diff.some THEN AcctResult("Overflow", acct)
         ELSE IF avail_diff.val < AmountZero THEN AcctResult("InsufficientFunds", acct)
         ELSE LET h1 == checked_add(acct.held, amount) IN
              IF ~h1.some THEN AcctResult("Overflow", acct)
              ELSE AcctResult("Ok", [acct EXCEPT !.held = h1.val,
                                                 !.available = avail_diff.val])

account_withdrawal_unchecked(acct, amount) ==
    IF amount <= AmountZero THEN AcctResult("InvalidInput", acct)
    ELSE IF acct.locked THEN AcctResult("Locked", acct)
    ELSE LET avail_diff == checked_sub(acct.available, amount) IN
         IF ~avail_diff.some THEN AcctResult("Overflow", acct)
         ELSE LET total_diff == checked_sub(acct.total, amount) IN
              IF ~total_diff.some THEN AcctResult("Overflow", acct)
              ELSE AcctResult("Ok", [acct EXCEPT !.available = avail_diff.val,
                                                 !.total = total_diff.val])

account_withdrawal_lock_first(acct, amount) ==
    IF acct.locked THEN AcctResult("Locked", acct)
    ELSE IF amount <= AmountZero THEN AcctResult("InvalidInput", acct)
    ELSE LET avail_diff == checked_sub(acct.available, amount) IN
         IF ~avail_diff.some THEN AcctResult("Overflow", acct)
         ELSE IF avail_diff.val < AmountZero THEN AcctResult("InsufficientFunds", acct)
         ELSE LET total_diff == checked_sub(acct.total, amount) IN
              IF ~total_diff.some THEN AcctResult("Overflow", acct)
              ELSE IF total_diff.val < AmountZero
                   THEN AcctResult("InsufficientFunds", acct)
              ELSE AcctResult("Ok", [acct EXCEPT !.available = avail_diff.val,
                                                 !.total = total_diff.val])

account_withdrawal(acct, amount) ==
    IF amount <= AmountZero THEN AcctResult("InvalidInput", acct)
    ELSE IF acct.locked THEN AcctResult("Locked", acct)
    ELSE LET avail_diff == checked_sub(acct.available, amount) IN
         IF ~avail_diff.some THEN AcctResult("Overflow", acct)
         ELSE IF avail_diff.val < AmountZero THEN AcctResult("InsufficientFunds", acct)
         ELSE LET total_diff == checked_sub(acct.total, amount) IN
              IF ~total_diff.some THEN AcctResult("Overflow", acct)
              ELSE IF total_diff.val < AmountZero
                   THEN AcctResult("InsufficientFunds", acct)
              ELSE AcctResult("Ok", [acct EXCEPT !.available = avail_diff.val,
                                                 !.total = total_diff.val])

account_resolve_no_release(acct, amount) ==
    IF amount <= AmountZero THEN AcctResult("InvalidInput", acct)
    ELSE IF acct.locked THEN AcctResult("Locked", acct)
    ELSE LET held_diff == checked_sub(acct.held, amount) IN
         IF ~held_diff.some THEN AcctResult("Overflow", acct)
         ELSE IF held_diff.val < AmountZero THEN AcctResult("InsufficientFunds", acct)
         ELSE AcctResult("Ok", [acct EXCEPT !.held = held_diff.val])

account_resolve(acct, amount) ==
    IF amount <= AmountZero THEN AcctResult("InvalidInput", acct)
    ELSE IF acct.locked THEN AcctResult("Locked", acct)
    ELSE LET held_diff == checked_sub(acct.held, amount) IN
         IF ~held_diff.some THEN AcctResult("Overflow", acct)
         ELSE IF held_diff.val < AmountZero THEN AcctResult("InsufficientFunds", acct)
         ELSE LET a1 == checked_add(acct.available, amount) IN
              IF ~a1.some THEN AcctResult("Overflow", acct)
              ELSE AcctResult("Ok", [acct EXCEPT !.available = a1.val,
                                                 !.held = held_diff.val])

account_charge_back_no_lock(acct, amount) ==
    IF amount <= AmountZero THEN AcctResult("InvalidInput", acct)
    ELSE IF acct.locked THEN AcctResult("Locked", acct)
    ELSE LET held_diff == checked_sub(acct.held, amount) IN
         IF ~held_diff.some THEN AcctResult("Overflow", acct)
         ELSE IF held_diff.val < AmountZero THEN AcctResult("InsufficientFunds", acct)
         ELSE LET total_diff == checked_sub(acct.total, amount) IN
              IF ~total_diff.some THEN AcctResult("Overflow", acct)
              ELSE IF total_diff.val < AmountZero
                   THEN AcctResult("InsufficientFunds", acct)
              ELSE AcctResult("Ok", [acct EXCEPT !.held = held_diff.val,
                                                 !.total = total_diff.val])

account_charge_back_keeps_total(acct, amount) ==
    IF amount <= AmountZero THEN AcctResult("InvalidInput", acct)
    ELSE IF acct.locked THEN AcctResult("Locked", acct)
    ELSE LET held_diff == checked_sub(acct.held, amount) IN
         IF ~held_diff.some THEN AcctResult("Overflow", acct)
         ELSE IF held_diff.val < AmountZero THEN AcctResult("InsufficientFunds", acct)
         ELSE AcctResult("Ok", [acct EXCEPT !.held = held_diff.val,
                                            !.locked = TRUE])

account_charge_back(acct, amount) ==
    IF amount <= AmountZero THEN AcctResult("InvalidInput", acct)
    ELSE IF acct.locked THEN AcctResult("Locked", acct)
    ELSE LET held_diff == checked_sub(acct.held, amount) IN
         IF ~held_diff.some THEN AcctResult("Overflow", acct)
         ELSE IF held_diff.val < AmountZero THEN AcctResult("InsufficientFunds", acct)
         ELSE LET total_diff == checked_sub(acct.total, amount) IN
              IF ~total_diff.some THEN AcctResult("Overflow", acct)
              ELSE IF total_diff.val < AmountZero
                   THEN AcctResult("InsufficientFunds", acct)
              ELSE AcctResult("Ok", [acct EXCEPT !.held = held_diff.val,
                                                 !.total = total_diff.val,
                                                 !.locked = TRUE])

(***************************************************************************)
(* Transaction and State (src/engine/state.rs).  A transaction is a record *)
(* [kind, id, client, amount, disputed]; the fields a kind does not carry  *)
(* are 0 / FALSE.  The result of an application is the error ("Ok",        *)
(* "Account" with the account error as inner, or a transaction error) and  *)
(* the state as the call leaves it.                                        *)
(***************************************************************************)
Deposit(id, client, amount, disputed) ==
    [kind |-> "Deposit", id |-> id, client |-> client, amount |-> amount,
     disputed |-> disputed]
Withdrawal(id, client, amount) ==
    [kind |-> "Withdrawal", id |-> id, client |-> client, amount |-> amount,
     disputed |-> FALSE]
Reference(kind, id, client) ==
    [kind |-> kind, id |-> id, client |-> client, amount |-> 0, disputed |-> FALSE]

StateNew(id) == [account |-> AccountNew(id), transaction_history |-> <<>>]

NoInner == "-"
TxResult(e, inner, st) == [err |-> e, inner |-> inner, state |-> st]

\* HashMap::insert: the entry of key k is added or replaced.
Insert(h, k, v) == (k :> v) @@ h

\* The ? after an account mutator: the account is written in place, the
\* history only on success.
WithAccountNoHistory(st, res, hist) ==
    IF res.err = "Ok"
    THEN TxResult("Ok", NoInner, [st EXCEPT !.account = res.account])
    ELSE TxResult("Account", res.err, [st EXCEPT !.account = res.account])

WithAccount(st, res, hist) ==
    IF res.err = "Ok"
    THEN TxResult("Ok", NoInner, [account |-> res.account, transaction_history |-> hist])
    ELSE TxResult("Account", res.err, [st EXCEPT !.account = res.account])

transaction_deposit_global_ids(tx, st) ==
    IF st.account.id # tx.client THEN TxResult("InvalidAccountId", NoInner, st)
    ELSE IF \E a \in DOMAIN accounts : tx.id \in DOMAIN accounts[a].transaction_history
         THEN TxResult("DuplicateTransactionId", NoInner, st)
    ELSE WithAccount(st, account_deposit(st.account, tx.amount),
                     Insert(st.transaction_history, tx.id, tx))

transaction_deposit_no_duplicate_check(tx, st) ==
    IF st.account.id # tx.client THEN TxResult("InvalidAccountId", NoInner, st)
    ELSE WithAccount(st, account_deposit(st.account, tx.amount),
                     Insert(st.transaction_history, tx.id, tx))

transaction_deposit_any_account(tx, st) ==
    IF tx.id \in DOMAIN st.transaction_history
    THEN TxResult("DuplicateTransactionId", NoInner, st)
    ELSE IF st.account.id # tx.client THEN TxResult("InvalidAccountId", NoInner, st)
    ELSE WithAccount(st, account_deposit(st.account, tx.amount),
                     Insert(st.transaction_history, tx.id, tx))

transaction_deposit(tx, st) ==
    IF st.account.id # tx.client THEN TxResult("InvalidAccountId", NoInner, st)
    ELSE IF tx.id \in DOMAIN st.transaction_history
         THEN TxResult("DuplicateTransactionId", NoInner, st)
    ELSE WithAccount(st, account_deposit(st.account, tx.amount),
                     Insert(st.transaction_history, tx.id, tx))

transaction_withdrawal_account_first(tx, st) ==
    IF st.account.id # tx.client THEN TxResult("InvalidAccountId", NoInner, st)
    ELSE IF account_withdrawal(st.account, tx.amount).err # "Ok"
         THEN WithAccount(st, account_withdrawal(st.account, tx.amount),
                          st.transaction_history)
    ELSE IF tx.id \in DOMAIN st.transaction_history
         THEN TxResult("DuplicateTransactionId", NoInner, st)
    ELSE WithAccount(st, account_withdrawal(st.account, tx.amount),
                     Insert(st.transaction_history, tx.id, tx))

transaction_withdrawal(tx, st) ==
    IF st.account.id # tx.client THEN TxResult("InvalidAccountId", NoInner, st)
    ELSE IF tx.id \in DOMAIN st.transaction_history
         THEN TxResult("DuplicateTransactionId", NoInner, st)
    ELSE WithAccount(st, account_withdrawal(st.account, tx.amount),
                     Insert(st.transaction_history, tx.id, tx))

transaction_dispute_no_flag_check(tx, st) ==
    IF st.account.id # tx.client THEN TxResult("InvalidAccountId", NoInner, st)
    ELSE IF tx.id \notin DOMAIN st.transaction_history
         THEN TxResult("Dispute", NoInner, st)
    ELSE LET d == st.transaction_history[tx.id] IN
         IF d.kind # "Deposit" THEN TxResult("Dispute", NoInner, st)
         ELSE WithAccount(st, account_dispute(st.account, d.amount),
                          Insert(st.transaction_history, d.id,
                                 Deposit(d.id, d.client, d.amount, TRUE)))

transaction_dispute_any_entry(tx, st) ==
    IF st.account.id # tx.client THEN TxResult("InvalidAccountId", NoInner, st)
    ELSE IF tx.id \notin DOMAIN st.transaction_history
         THEN TxResult("Dispute", NoInner, st)
    ELSE LET d == st.transaction_history[tx.id] IN
         IF d.disputed THEN TxResult("Dispute", NoInner, st)
         ELSE WithAccount(st, account_dispute(st.account, d.amount),
                          Insert(st.transaction_history, d.id,
                                 [d EXCEPT !.disputed = TRUE]))

transaction_dispute(tx, st) ==
    IF st.account.id # tx.client THEN TxResult("InvalidAccountId", NoInner, st)
    ELSE IF tx.id \notin DOMAIN st.transaction_history
         THEN TxResult("Dispute", NoInner, st)
    ELSE LET d == st.transaction_history[tx.id] IN
         IF d.kind # "Deposit" THEN TxResult("Dispute", NoInner, st)
         ELSE IF d.disputed THEN TxResult("Dispute", NoInner, st)
         ELSE WithAccount(st, account_dispute(st.account, d.amount),
                          Insert(st.transaction_history, d.id,
                                 Deposit(d.id, d.client, d.amount, TRUE)))

transaction_resolve_keeps_flag(tx, st) ==
    IF st.account.id # tx.client THEN TxResult("InvalidAccountId", NoInner, st)
    ELSE IF tx.id \notin DOMAIN st.transaction_history
         THEN TxResult("Resolve", NoInner, st)
    ELSE LET d == st.transaction_history[tx.id] IN
         IF d.kind # "Deposit" THEN TxResult("Resolve", NoInner, st)
         ELSE IF ~d.disputed THEN TxResult("Resolve", NoInner, st)
         ELSE WithAccount(st, account_resolve(st.account, d.amount),
                          st.transaction_history)

transaction_resolve(tx, st) ==
    IF st.account.id # tx.client THEN TxResult("InvalidAccountId", NoInner, st)
    ELSE IF tx.id \notin DOMAIN st.transaction_history
         THEN TxResult("Resolve", NoInner, st)
    ELSE LET d == st.transaction_history[tx.id] IN
         IF d.kind # "Deposit" THEN TxResult("Resolve", NoInner, st)
         ELSE IF ~d.disputed THEN TxResult("Resolve", NoInner, st)
         ELSE WithAccount(st, account_resolve(st.account, d.amount),
                          Insert(st.transaction_history, d.id,
                                 Deposit(d.id, d.client, d.amount, FALSE)))

transaction_charge_back_keeps_flag(tx, st) ==
    IF st.account.id # tx.client THEN TxResult("InvalidAccountId", NoInner, st)
    ELSE IF tx.id \notin DOMAIN st.transaction_history
         THEN TxResult("ChargeBack", NoInner, st)
    ELSE LET d == st.transaction_history[tx.id] IN
         IF d.kind # "Deposit" THEN TxResult("ChargeBack", NoInner, st)
         ELSE IF ~d.disputed THEN TxResult("ChargeBack", NoInner, st)
         ELSE WithAccount(st, account_charge_back(st.account, d.amount),
                          st.transaction_history)

transaction_charge_back(tx, st) ==
    IF st.account.id # tx.client THEN TxResult("InvalidAccountId", NoInner, st)
    ELSE IF tx.id \notin DOMAIN st.transaction_history
         THEN TxResult("ChargeBack", NoInner, st)
    ELSE LET d == st.transaction_history[tx.id] IN
         IF d.kind # "Deposit" THEN TxResult("ChargeBack", NoInner, st)
         ELSE IF ~d.disputed THEN TxResult("ChargeBack", NoInner, st)
         ELSE WithAccount(st, account_charge_back(st.account, d.amount),
                          Insert(st.transaction_history, d.id,
                                 Deposit(d.id, d.client, d.amount, FALSE)))

apply(tx, st) ==
    CASE tx.kind = "Deposit" -> transaction_deposit(tx, st)
      [] tx.kind = "Withdrawal" -> transaction_withdrawal(tx, st)
      [] tx.kind = "Dispute" -> transaction_dispute(tx, st)
      [] tx.kind = "Resolve" -> transaction_resolve(tx, st)
      [] tx.kind = "ChargeBack" -> transaction_charge_back(tx, st)

(***************************************************************************)
(* TransactionRecord (src/model/transaction.rs) and its conversion         *)
(* (TryFrom<TransactionRecord> for Transaction).  A record's amount is an  *)
(* Option<f64>.                                                            *)
(***************************************************************************)
TransactionRecord(type, client, id, amount) ==
    [transaction_type |-> type, client |-> client, id |-> id, amount |-> amount]

ConvOk(tx) == [ok |-> TRUE, err |-> "Ok", tx |-> tx]
ConvErr(e) == [ok |-> FALSE, err |-> e, tx |-> Reference("Dispute", 0, 0)]

try_from_swapped_metadata(rec) ==
    CASE rec.transaction_type = "Deposit" ->
            IF ~rec.amount.some THEN ConvErr("Deposit")
            ELSE IF ~from_f64(rec.amount.val).some THEN ConvErr("Deposit")
            ELSE ConvOk(Deposit(rec.client, rec.id, from_f64(rec.amount.val).val, FALSE))
      [] rec.transaction_type = "Withdrawal" ->
            IF ~rec.amount.some THEN ConvErr("Withdrawal")
            ELSE IF ~from_f64(rec.amount.val).some THEN ConvErr("Withdrawal")
            ELSE ConvOk(Withdrawal(rec.client, rec.id, from_f64(rec.amount.val).val))
      [] rec.transaction_type = "Dispute" ->
            ConvOk(Reference("Dispute", rec.client, rec.id))
      [] rec.transaction_type = "Resolve" ->
            ConvOk(Reference("Resolve", rec.client, rec.id))
      [] rec.transaction_type = "ChargeBack" ->
            ConvOk(Reference("ChargeBack", rec.client, rec.id))

try_from(rec) ==
    CASE rec.transaction_type = "Deposit" ->
            IF ~rec.amount.some THEN ConvErr("Deposit")
            ELSE IF ~from_f64(rec.amount.val).some THEN ConvErr("Deposit")
            ELSE ConvOk(Deposit(rec.id, rec.client, from_f64(rec.amount.val).val, FALSE))
      [] rec.transaction_type = "Withdrawal" ->
            IF ~rec.amount.some THEN ConvErr("Withdrawal")
            ELSE IF ~from_f64(rec.amount.val).some THEN ConvErr("Withdrawal")
            ELSE ConvOk(Withdrawal(rec.id, rec.client, from_f64(rec.amount.val).val))
      [] rec.transaction_type = "Dispute" ->
            ConvOk(Reference("Dispute", rec.id, rec.client))
      [] rec.transaction_type = "Resolve" ->
            ConvOk(Reference("Resolve", rec.id, rec.client))
      [] rec.transaction_type = "ChargeBack" ->
            ConvOk(Reference("ChargeBack", rec.id, rec.client))

(***************************************************************************)
(* The engine (src/engine/server.rs, src/engine/handler.rs, src/main.rs).  *)
(* Channel capacities are 32 in the source; the model scales them down so  *)
(* that a full inbox is reached.                                           *)
(***************************************************************************)
\* Capacity of the Listener inbox and of each Handler inbox.
RxCapacity == 2
InboxCapacity == 2
\* Numbers of ExecuteTransaction and of GetAccountsState commands a run
\* of the producer submits at most.
MaxSubmit == 3
MaxSnapshots == 1

\* Amounts a record may carry as its f64: non-positive, small, the largest
\* Amount, and a double that is not representable.
F64Values == {-1, 0, 1, AmountMax - 1, AmountMax, AmountMax + 1}
OptAmounts == {None} \cup {Some(x) : x \in F64Values}
TransactionTypes == {"Deposit", "Withdrawal", "Dispute", "Resolve", "ChargeBack"}

\* Records of the input schema; dispute, resolve and chargeback rows carry
\* no amount.
Records ==
    {TransactionRecord(t, c, i, a) :
        t \in {"Deposit", "Withdrawal"}, c \in AccountIds, i \in TxIds, a \in OptAmounts}
    \cup
    {TransactionRecord(t, c, i, None) :
        t \in {"Dispute", "Resolve", "ChargeBack"}, c \in AccountIds, i \in TxIds}

NoLast == [err |-> "None", inner |-> NoInner, target |-> 0,
           tx |-> Reference("Dispute", 0, 0), before |-> StateNew(0)]

NoPlan == [input |-> <<>>, i |-> 0, j |-> 0]
NoRun == [n |-> 0, first |-> {}]
NoConversion ==
    [record |-> TransactionRecord("Dispute", 0, 0, None), done |-> FALSE,
     result |-> ConvErr("None")]

Range(f) == {f[k] : k \in DOMAIN f}

\* DashMap::entry(k).or_insert(v)
OrInsertFresh(m, k, v) == (k :> v) @@ m
OrInsertNever(m, k, v) == m
OrInsert(m, k, v) == IF k \in DOMAIN m THEN m ELSE (k :> v) @@ m

\* Bookkeeping of one Transaction::apply on the entry of account a.
ApplyOn(a, tx) ==
    LET res == apply(tx, accounts[a]) IN
    /\ accounts' = [accounts EXCEPT ![a] = res.state]
    /\ last' = [err |-> res.err, inner |-> res.inner, target |-> a, tx |-> tx,
                before |-> accounts[a]]
    /\ applied' = IF res.err = "Ok" /\ tx.kind \in {"Deposit", "Withdrawal"}
                  THEN [applied EXCEPT ![a][tx.id] = @ + 1]
                  ELSE applied
    /\ charged_back' = IF res.err = "Ok" /\ tx.kind = "ChargeBack"
                       THEN [charged_back EXCEPT ![a] = @ \cup {tx.id}]
                       ELSE charged_back

(***************************************************************************)
(* Direct use of Transaction::apply on one account state, as the unit      *)
(* tests of state.rs do: any transaction, also one of another account.     *)
(***************************************************************************)
InitAccount ==
    /\ \E a \in AccountIds : accounts = (a :> StateNew(a))
    /\ tx_handlers = <<>>
    /\ rx = <<>>
    /\ rx_closed = FALSE
    /\ listener = [pc |-> "recv", client |-> 0, pending |-> {}, cur |-> 0]
    /\ handlers = <<>>
    /\ replies = <<>>
    /\ submitted = [tx |-> 0, snap |-> 0]
    /\ received = [a \in AccountIds |-> <<>>]
    /\ handled = [a \in AccountIds |-> <<>>]
    /\ applied = [a \in AccountIds |-> [i \in TxIds |-> 0]]
    /\ last = NoLast
    /\ charged_back = [a \in AccountIds |-> {}]
    /\ plan = NoPlan
    /\ run = NoRun
    /\ conversion = NoConversion

ApplyTransaction(rec) ==
    /\ try_from(rec).ok
    /\ \E a \in DOMAIN accounts : ApplyOn(a, try_from(rec).tx)
    /\ UNCHANGED engine_vars

NextAccount == \E rec \in Records : ApplyTransaction(rec)

SpecAccount == InitAccount /\ [][NextAccount]_vars

(***************************************************************************)
(* The engine proper.  Commands are records; a Handler is                  *)
(* [account_id, inbox, closed, commit, pc]: its inbox is the mpsc channel  *)
(* whose Sender the Listener keeps in tx_handlers, commit the one-shot     *)
(* reply of its Commit, pc its position in Handler::run.                   *)
(***************************************************************************)
ExecuteTransaction(rec) == [type |-> "ExecuteTransaction", rec |-> rec]
GetAccountsState == [type |-> "GetAccountsState",
                     rec |-> TransactionRecord("Dispute", 0, 0, None)]
Commit == [type |-> "Commit", rec |-> TransactionRecord("Dispute", 0, 0, None)]

HandlerNew(id) ==
    [account_id |-> id, inbox |-> <<>>, closed |-> FALSE, commit |-> "none",
     pc |-> "recv"]

HandlerIds == DOMAIN handlers

\* mpsc: send appends at the back, recv takes from the front.
SendFront(q, m) == <<m>> \o q
Send(q, m) == Append(q, m)

\* The Sender of Handler h is alive while tx_handlers holds it.
SenderAlive(h) == \E a \in DOMAIN tx_handlers : tx_handlers[a] = h

\* The Vec<Account> of a snapshot, compared as a set.
SnapshotNonZero(m) == {m[k].account : k \in {x \in DOMAIN m : m[x].account.total # 0}}
Snapshot(m) == {m[k].account : k \in DOMAIN m}

Init ==
    /\ accounts = <<>>
    /\ tx_handlers = <<>>
    /\ rx = <<>>
    /\ rx_closed = FALSE
    /\ listener = [pc |-> "recv", client |-> 0, pending |-> {}, cur |-> 0]
    /\ handlers = <<>>
    /\ replies = <<>>
    /\ submitted = [tx |-> 0, snap |-> 0]
    /\ received = [a \in AccountIds |-> <<>>]
    /\ handled = [a \in AccountIds |-> <<>>]
    /\ applied = [a \in AccountIds |-> [i \in TxIds |-> 0]]
    /\ last = NoLast
    /\ charged_back = [a \in AccountIds |-> {}]
    /\ plan = NoPlan
    /\ run = NoRun
    /\ conversion = NoConversion

(***************************************************************************)
(* The producer (main.rs, the tests): sends commands while the Listener    *)
(* inbox has room, then drops its Sender.                                  *)
(***************************************************************************)
Submit(rec) ==
    /\ ~rx_closed
    /\ submitted.tx < MaxSubmit
    /\ Len(rx) < RxCapacity
    /\ rx' = Send(rx, ExecuteTransaction(rec))
    /\ submitted' = [submitted EXCEPT !.tx = @ + 1]
    /\ UNCHANGED <<accounts, tx_handlers, rx_closed, listener, handlers, replies,
                   received, handled, applied, last, charged_back,
                   plan, run, conversion>>

RequestAccounts ==
    /\ ~rx_closed
    /\ submitted.snap < MaxSnapshots
    /\ Len(rx) < RxCapacity
    /\ rx' = Send(rx, GetAccountsState)
    /\ submitted' = [submitted EXCEPT !.snap = @ + 1]
    /\ UNCHANGED <<accounts, tx_handlers, rx_closed, listener, handlers, replies,
                   received, handled, applied, last, charged_back,
                   plan, run, conversion>>

CloseInput ==
    /\ ~rx_closed
    /\ rx_closed' = TRUE
    /\ UNCHANGED <<accounts, tx_handlers, rx, listener, handlers, replies,
                   submitted, received, handled, applied, last, charged_back,
                   plan, run, conversion>>

(***************************************************************************)
(* Listener::run (server.rs 43-122).                                       *)
(***************************************************************************)
\* recv of an ExecuteTransaction: spawn the Handler of a new client.
ListenerExecute ==
    /\ listener.pc = "recv"
    /\ rx # <<>>
    /\ Head(rx).type = "ExecuteTransaction"
    /\ LET rec == Head(rx).rec
           c == rec.client
       IN /\ rx' = Tail(rx)
          /\ received' = [received EXCEPT ![c] = Append(@, rec)]
          /\ IF c \notin DOMAIN tx_handlers
             THEN /\ handlers' = Append(handlers, HandlerNew(c))
                  /\ tx_handlers' = (c :> (Len(handlers) + 1)) @@ tx_handlers
                  /\ accounts' = OrInsert(accounts, c, StateNew(c))
             ELSE UNCHANGED <<handlers, tx_handlers, accounts>>
          /\ listener' = [listener EXCEPT !.pc = "send", !.client = c,
                                          !.cur = Len(received[c]) + 1]
    /\ UNCHANGED <<rx_closed, replies, submitted, handled, applied, last, charged_back,
                   plan, run, conversion>>

ListenerSendDropping ==
    /\ listener.pc = "send"
    /\ LET c == listener.client
           h == tx_handlers[c]
           rec == received[c][listener.cur]
       IN IF \/ handlers[h].closed \/ handlers[h].pc \in {"done", "failed"}
             \/ Len(handlers[h].inbox) >= InboxCapacity
          THEN UNCHANGED handlers
          ELSE handlers' = [handlers EXCEPT ![h].inbox =
                               Send(@, ExecuteTransaction(rec))]
    /\ listener' = [listener EXCEPT !.pc = "recv", !.client = 0, !.cur = 0]
    /\ UNCHANGED <<accounts, tx_handlers, rx, rx_closed, replies, submitted,
                   received, handled, applied, last, charged_back,
                   plan, run, conversion>>

\* sender.send(ExecuteTransaction(..)).await: waits for room; an error
\* (receiver closed) is logged and the record dropped.
ListenerSend ==
    /\ listener.pc = "send"
    /\ LET c == listener.client
           h == tx_handlers[c]
           rec == received[c][listener.cur]
       IN IF handlers[h].closed \/ handlers[h].pc \in {"done", "failed"}
          THEN UNCHANGED handlers
          ELSE /\ Len(handlers[h].inbox) < InboxCapacity
               /\ handlers' = [handlers EXCEPT ![h].inbox =
                                   Send(@, ExecuteTransaction(rec))]
    /\ listener' = [listener EXCEPT !.pc = "recv", !.client = 0, !.cur = 0]
    /\ UNCHANGED <<accounts, tx_handlers, rx, rx_closed, replies, submitted,
                   received, handled, applied, last, charged_back,
                   plan, run, conversion>>

\* recv of a GetAccountsState: start the loop over tx_handlers.values().
ListenerGetAccountsState ==
    /\ listener.pc = "recv"
    /\ rx # <<>>
    /\ Head(rx).type = "GetAccountsState"
    /\ rx' = Tail(rx)
    /\ listener' = [listener EXCEPT
                       !.pc = IF tx_handlers = <<>> THEN "reply" ELSE "commit_send",
                       !.pending = Range(tx_handlers)]
    /\ UNCHANGED <<accounts, tx_handlers, rx_closed, handlers, replies, submitted,
                   received, handled, applied, last, charged_back,
                   plan, run, conversion>>

AfterCommitFirstOnly(pending) == "reply"
AfterCommitNoExit(pending) == "commit_send"
AfterCommit(pending) == IF pending = {} THEN "reply" ELSE "commit_send"

\* handler.send(Commit(resp_tx)).await for the next Handler, in the
\* arbitrary order of the hash map.
ListenerCommitSend(h) ==
    /\ listener.pc = "commit_send"
    /\ h \in listener.pending
    /\ IF handlers[h].closed \/ handlers[h].pc \in {"done", "failed"}
       THEN /\ UNCHANGED handlers
            /\ listener' = [listener EXCEPT !.pending = @ \ {h},
                                            !.pc = AfterCommit(listener.pending \ {h})]
       ELSE /\ Len(handlers[h].inbox) < InboxCapacity
            /\ handlers' = [handlers EXCEPT ![h].inbox = Send(@, Commit)]
            /\ listener' = [listener EXCEPT !.pc = "commit_wait", !.cur = h]
    /\ UNCHANGED <<accounts, tx_handlers, rx, rx_closed, replies, submitted,
                   received, handled, applied, last, charged_back,
                   plan, run, conversion>>

\* resp_rx.await: resumes when the Handler has answered, or has gone
\* without answering.
CommitAnsweredNoWait(h) == TRUE
CommitAnswered(h) ==
    \/ handlers[h].commit = "sent"
    \/ handlers[h].pc \in {"done", "failed"}

ListenerCommitWait ==
    /\ listener.pc = "commit_wait"
    /\ CommitAnswered(listener.cur)
    /\ listener' = [listener EXCEPT !.pending = @ \ {listener.cur},
                                    !.cur = 0,
                                    !.pc = AfterCommit(listener.pending \ {listener.cur})]
    /\ UNCHANGED <<accounts, tx_handlers, rx, rx_closed, handlers, replies,
                   submitted, received, handled, applied, last, charged_back,
                   plan, run, conversion>>

\* tx_handlers.clear() and resp.send(accounts ...).  A reply is recorded
\* with the histories at the moment the accounts are read.
ListenerReply ==
    /\ listener.pc = "reply"
    /\ tx_handlers' = <<>>
    /\ replies' = Append(replies, [accounts |-> Snapshot(accounts),
                                   received |-> received,
                                   handled |-> handled,
                                   applied |-> applied])
    /\ listener' = [listener EXCEPT !.pc = "recv"]
    /\ UNCHANGED <<accounts, rx, rx_closed, handlers, submitted, received,
                   handled, applied, last, charged_back,
                   plan, run, conversion>>

\* recv returns None: the loop ends and the Listener is dropped, with it
\* every Sender of a Handler inbox.
ListenerExit ==
    /\ listener.pc = "recv"
    /\ rx = <<>>
    /\ rx_closed
    /\ listener' = [listener EXCEPT !.pc = "done"]
    /\ tx_handlers' = <<>>
    /\ UNCHANGED <<accounts, rx, rx_closed, handlers, replies, submitted,
                   received, handled, applied, last, charged_back,
                   plan, run, conversion>>

(***************************************************************************)
(* Handler::run (handler.rs 42-95).                                        *)
(***************************************************************************)
\* recv of an ExecuteTransaction and its whole processing, which has no
\* suspension point.
HandlerTarget(h, rec) == rec.client

\* The records Handler h logs and drops: those of another client and those
\* that do not convert to a Transaction.
DroppedOnlyInvalid(h, rec) == ~try_from(rec).ok
Dropped(h, rec) == rec.client # handlers[h].account_id \/ ~try_from(rec).ok

HandlerExecute(h) ==
    /\ handlers[h].pc = "recv"
    /\ handlers[h].inbox # <<>>
    /\ Head(handlers[h].inbox).type = "ExecuteTransaction"
    /\ LET rec == Head(handlers[h].inbox).rec
           conv == try_from(rec)
           a == HandlerTarget(h, rec)
       IN /\ handled' = [handled EXCEPT ![handlers[h].account_id] = Append(@, rec)]
          /\ IF Dropped(h, rec)
             THEN /\ handlers' = [handlers EXCEPT ![h].inbox = Tail(@)]
                  /\ UNCHANGED <<accounts, applied, last, charged_back>>
             ELSE IF a \notin DOMAIN accounts
             THEN /\ handlers' = [handlers EXCEPT ![h].inbox = <<>>, ![h].pc = "failed"]
                  /\ UNCHANGED <<accounts, applied, last, charged_back>>
             ELSE /\ handlers' = [handlers EXCEPT ![h].inbox = Tail(@)]
                  /\ ApplyOn(a, conv.tx)
    /\ UNCHANGED <<tx_handlers, rx, rx_closed, listener, replies, submitted, received,
                   plan, run, conversion>>

\* recv of a Commit: resp.send(Ok(())).
HandlerCommit(h) ==
    /\ handlers[h].pc = "recv"
    /\ handlers[h].inbox # <<>>
    /\ Head(handlers[h].inbox).type = "Commit"
    /\ handlers' = [handlers EXCEPT ![h].inbox = Tail(@), ![h].commit = "sent",
                                    ![h].pc = "closing"]
    /\ UNCHANGED <<accounts, tx_handlers, rx, rx_closed, listener, replies,
                   submitted, received, handled, applied, last, charged_back,
                   plan, run, conversion>>

HandlerCloseNoClose(h) ==
    /\ handlers[h].pc = "closing"
    /\ handlers' = [handlers EXCEPT ![h].pc = "recv"]
    /\ UNCHANGED <<accounts, tx_handlers, rx, rx_closed, listener, replies,
                   submitted, received, handled, applied, last, charged_back,
                   plan, run, conversion>>

\* rx.close()
HandlerClose(h) ==
    /\ handlers[h].pc = "closing"
    /\ handlers' = [handlers EXCEPT ![h].closed = TRUE, ![h].pc = "recv"]
    /\ UNCHANGED <<accounts, tx_handlers, rx, rx_closed, listener, replies,
                   submitted, received, handled, applied, last, charged_back,
                   plan, run, conversion>>

HandlerExitEarly(h) ==
    /\ handlers[h].pc = "recv"
    /\ handlers[h].closed \/ ~SenderAlive(h)
    /\ handlers' = [handlers EXCEPT ![h].pc = "done"]
    /\ UNCHANGED <<accounts, tx_handlers, rx, rx_closed, listener, replies,
                   submitted, received, handled, applied, last, charged_back,
                   plan, run, conversion>>

\* recv returns None once the inbox is empty and closed, or its Sender
\* dropped: run returns Ok.
HandlerExit(h) ==
    /\ handlers[h].pc = "recv"
    /\ handlers[h].inbox = <<>>
    /\ handlers[h].closed \/ ~SenderAlive(h)
    /\ handlers' = [handlers EXCEPT ![h].pc = "done"]
    /\ UNCHANGED <<accounts, tx_handlers, rx, rx_closed, listener, replies,
                   submitted, received, handled, applied, last, charged_back,
                   plan, run, conversion>>

\* The records the producer of the engine runs draws from: for client 1 a
\* deposit, a withdrawal, the three references to the deposit and a deposit
\* row without amount; for the other clients a deposit and a withdrawal
\* with the same transaction ids.
EngineRecords ==
    {TransactionRecord("Deposit", c, 1, Some(1)) : c \in AccountIds}
    \cup {TransactionRecord("Withdrawal", c, 2, Some(1)) : c \in AccountIds}
    \cup {TransactionRecord(t, 1, 1, None) : t \in {"Dispute", "Resolve", "ChargeBack"}}
    \cup {TransactionRecord("Deposit", 1, 2, None)}

Next ==
    \/ \E rec \in EngineRecords : Submit(rec)
    \/ RequestAccounts
    \/ CloseInput
    \/ ListenerExecute
    \/ ListenerSend
    \/ ListenerGetAccountsState
    \/ \E h \in HandlerIds : ListenerCommitSend(h)
    \/ ListenerCommitWait
    \/ ListenerReply
    \/ ListenerExit
    \/ \E h \in HandlerIds : HandlerExecute(h)
    \/ \E h \in HandlerIds : HandlerCommit(h)
    \/ \E h \in HandlerIds : HandlerClose(h)
    \/ \E h \in HandlerIds : HandlerExit(h)

Spec == Init /\ [][Next]_vars

(***************************************************************************)
(* Scheduling.  engine::run spawns the Listener as one tokio task          *)
(* (engine.rs 8-12) and the Listener spawns one task per Handler           *)
(* (server.rs 51-53); the runtime polls every task that can make a step.   *)
(* Nothing obliges the producer to send or to drop its Sender.             *)
(***************************************************************************)
ListenerStep ==
    \/ ListenerExecute
    \/ ListenerSend
    \/ ListenerGetAccountsState
    \/ \E h \in HandlerIds : ListenerCommitSend(h)
    \/ ListenerCommitWait
    \/ ListenerReply
    \/ ListenerExit

HandlerStep(h) ==
    /\ h \in HandlerIds
    /\ (HandlerExecute(h) \/ HandlerCommit(h) \/ HandlerClose(h) \/ HandlerExit(h))

\* A Handler is spawned for at most every submitted record.
Fairness ==
    /\ WF_vars(ListenerStep)
    /\ \A h \in 1..MaxSubmit : WF_vars(HandlerStep(h))

\* The records of the runs checked for progress: for client 1 a deposit and
\* a withdrawal, which fails while the deposit has not been applied, and a
\* deposit for client 2.
LiveRecords ==
    {TransactionRecord("Deposit", 1, 1, Some(1)),
     TransactionRecord("Withdrawal", 1, 2, Some(1)),
     TransactionRecord("Deposit", MaxAccountId, 1, Some(1))}

NextLive ==
    \/ \E rec \in LiveRecords : Submit(rec)
    \/ RequestAccounts
    \/ CloseInput
    \/ ListenerExecute
    \/ ListenerSend
    \/ ListenerGetAccountsState
    \/ \E h \in HandlerIds : ListenerCommitSend(h)
    \/ ListenerCommitWait
    \/ ListenerReply
    \/ ListenerExit
    \/ \E h \in HandlerIds : HandlerExecute(h)
    \/ \E h \in HandlerIds : HandlerCommit(h)
    \/ \E h \in HandlerIds : HandlerClose(h)
    \/ \E h \in HandlerIds : HandlerExit(h)

SpecLive == Init /\ [][NextLive]_vars /\ Fairness

(***************************************************************************)
(* Transaction::try_from on its own, as test_transaction_tryfrom uses it   *)
(* (state.rs 270-340): any record of the input schema, of any type and     *)
(* with or without an amount, is converted once.                           *)
(***************************************************************************)
ConvertRecords ==
    {TransactionRecord(t, c, i, a) :
        t \in TransactionTypes, c \in AccountIds, i \in TxIds, a \in OptAmounts}

InitConvert ==
    /\ accounts = <<>>
    /\ tx_handlers = <<>>
    /\ rx = <<>>
    /\ rx_closed = FALSE
    /\ listener = [pc |-> "recv", client |-> 0, pending |-> {}, cur |-> 0]
    /\ handlers = <<>>
    /\ replies = <<>>
    /\ submitted = [tx |-> 0, snap |-> 0]
    /\ received = [a \in AccountIds |-> <<>>]
    /\ handled = [a \in AccountIds |-> <<>>]
    /\ applied = [a \in AccountIds |-> [i \in TxIds |-> 0]]
    /\ last = NoLast
    /\ charged_back = [a \in AccountIds |-> {}]
    /\ plan = NoPlan
    /\ run = NoRun
    /\ \E rec \in ConvertRecords :
          conversion = [record |-> rec, done |-> FALSE, result |-> ConvErr("None")]

Convert ==
    /\ ~conversion.done
    /\ conversion' = [conversion EXCEPT !.done = TRUE,
                                        !.result = try_from(conversion.record)]
    /\ UNCHANGED <<accounts, tx_handlers, rx, rx_closed, listener, handlers, replies,
                   submitted, received, handled, applied, last, charged_back,
                   plan, run>>

NextConvert == Convert

SpecConvert == InitConvert /\ [][NextConvert]_vars

(***************************************************************************)
(* A Handler driven directly through its channel, as test_handler does     *)
(* (handler.rs 107-180): the account of the Handler exists, the harness    *)
(* holds the Sender (kept in tx_handlers), sends records of any client,    *)
(* then a Commit, and may drop the Sender.                                 *)
(***************************************************************************)
HarnessClient == 1
HarnessHandler == 1

\* A valid deposit, a withdrawal that fails on application, a record of
\* another client and a deposit row without amount.
HandlerRecords ==
    {TransactionRecord("Deposit", HarnessClient, 1, Some(1)),
     TransactionRecord("Withdrawal", HarnessClient, 2, Some(AmountMax)),
     TransactionRecord("Deposit", HarnessClient + 1, 1, Some(1)),
     TransactionRecord("Deposit", HarnessClient, 2, None)}

InitHandler ==
    /\ accounts = (HarnessClient :> StateNew(HarnessClient))
    /\ tx_handlers = (HarnessClient :> HarnessHandler)
    /\ rx = <<>>
    /\ rx_closed = TRUE
    /\ listener = [pc |-> "done", client |-> 0, pending |-> {}, cur |-> 0]
    /\ handlers = <<HandlerNew(HarnessClient)>>
    /\ replies = <<>>
    /\ submitted = [tx |-> 0, snap |-> 0]
    /\ received = [a \in AccountIds |-> <<>>]
    /\ handled = [a \in AccountIds |-> <<>>]
    /\ applied = [a \in AccountIds |-> [i \in TxIds |-> 0]]
    /\ last = NoLast
    /\ charged_back = [a \in AccountIds |-> {}]
    /\ plan = NoPlan
    /\ run = NoRun
    /\ conversion = NoConversion

\* tx.send(Command::ExecuteTransaction(transaction)).await: waits for
\* room; once the Handler has closed its inbox, or is gone, the send fails
\* and the record is not enqueued.
HarnessSend(rec) ==
    /\ SenderAlive(HarnessHandler)
    /\ submitted.tx < MaxSubmit
    /\ IF handlers[HarnessHandler].closed \/ handlers[HarnessHandler].pc = "done"
       THEN UNCHANGED <<handlers, received>>
       ELSE /\ Len(handlers[HarnessHandler].inbox) < InboxCapacity
            /\ handlers' = [handlers EXCEPT ![HarnessHandler].inbox =
                                Send(@, ExecuteTransaction(rec))]
            /\ received' = [received EXCEPT ![HarnessClient] = Append(@, rec)]
    /\ submitted' = [submitted EXCEPT !.tx = @ + 1]
    /\ UNCHANGED <<accounts, tx_handlers, rx, rx_closed, listener, replies, handled,
                   applied, last, charged_back, plan, run, conversion>>

\* tx.send(Command::Commit(resp_tx)).await, likewise.
HarnessCommit ==
    /\ SenderAlive(HarnessHandler)
    /\ submitted.snap < MaxSnapshots
    /\ IF handlers[HarnessHandler].closed \/ handlers[HarnessHandler].pc = "done"
       THEN UNCHANGED handlers
       ELSE /\ Len(handlers[HarnessHandler].inbox) < InboxCapacity
            /\ handlers' = [handlers EXCEPT ![HarnessHandler].inbox = Send(@, Commit)]
    /\ submitted' = [submitted EXCEPT !.snap = @ + 1]
    /\ UNCHANGED <<accounts, tx_handlers, rx, rx_closed, listener, replies, received,
                   handled, applied, last, charged_back, plan, run, conversion>>

\* The harness ends and its Sender is dropped.
HarnessDrop ==
    /\ SenderAlive(HarnessHandler)
    /\ tx_handlers' = <<>>
    /\ UNCHANGED <<accounts, rx, rx_closed, listener, handlers, replies, submitted,
                   received, handled, applied, last, charged_back, plan, run, conversion>>

NextHandler ==
    \/ \E rec \in HandlerRecords : HarnessSend(rec)
    \/ HarnessCommit
    \/ HarnessDrop
    \/ HandlerExecute(HarnessHandler)
    \/ HandlerCommit(HarnessHandler)
    \/ HandlerClose(HarnessHandler)
    \/ HandlerExit(HarnessHandler)

\* The Handler is one spawned task (handler.rs 119-121); the harness is
\* under no obligation.
SpecHandler ==
    InitHandler /\ [][NextHandler]_vars /\ WF_vars(HandlerStep(HarnessHandler))

(***************************************************************************)
(* Properties of the account state machine, checked under SpecAccount.     *)
(***************************************************************************)
Accounts == {accounts[a].account : a \in DOMAIN accounts}

\* C1: in every reachable state every account has
\* available + held = total, also after transactions that failed on the
\* arithmetic bound.
C1_BalanceEquation ==
    \A acct \in Accounts : acct.available + acct.held = acct.total

\* C2: in every reachable state every account has available >= 0,
\* held >= 0 and total >= 0.
C2_NonNegative ==
    \A acct \in Accounts :
        acct.available >= AmountZero /\ acct.held >= AmountZero
        /\ acct.total >= AmountZero

\* A withdrawal or a dispute has been refused for insufficient funds on an
\* account whose available is zero.
C2_Witness ==
    /\ last.err = "Account" /\ last.inner = "InsufficientFunds"
    /\ last.tx.kind \in {"Withdrawal", "Dispute"}
    /\ \E acct \in Accounts : acct.id = last.target /\ acct.available = AmountZero

\* C3: whenever Transaction::apply returns an error, the account and the
\* transaction history are exactly what they were before the call.
C3_FailedApplyChangesNothing ==
    last.err \notin {"Ok", "None"} => accounts[last.target] = last.before

\* C4: once an account is locked, no applied transaction changes its
\* available, held or total.
C4_LockedBalancesFrozen ==
    [][\A a \in DOMAIN accounts :
          accounts[a].account.locked =>
              /\ accounts'[a].account.available = accounts[a].account.available
              /\ accounts'[a].account.held = accounts[a].account.held
              /\ accounts'[a].account.total = accounts[a].account.total]_vars

\* A deposit with a fresh id and a positive amount has been applied to a
\* locked account.
C4_Witness ==
    /\ last.err = "Account" /\ last.inner = "Locked"
    /\ last.tx.kind = "Deposit"
    /\ last.before.account.locked

(***************************************************************************)
(* Properties of the engine, checked under Spec.                           *)
(***************************************************************************)
IsPrefix(s, t) == Len(s) <= Len(t) /\ SubSeq(t, 1, Len(s)) = s

\* C5: for every account, the records its Handlers consume are, in the
\* same order, the records the Listener received for it: at every moment
\* the consumed sequence is a prefix of the received one.
C5_PerAccountOrder ==
    \A a \in AccountIds : IsPrefix(handled[a], received[a])

\* A Handler has consumed two different records of one account while a
\* further command waits in its inbox.
C5_Witness ==
    \E a \in AccountIds :
        /\ Len(handled[a]) >= 2
        /\ handled[a][1] # handled[a][2]
        /\ \E h \in HandlerIds : handlers[h].account_id = a /\ handlers[h].inbox # <<>>

\* C6: when the Listener reads the accounts for a GetAccountsState, no
\* ExecuteTransaction is pending in a Handler inbox, and every record
\* received before the command, and no other, has been consumed.
C6_SnapshotAfterDrain ==
    /\ listener.pc = "reply" =>
          \A h \in HandlerIds : \A k \in DOMAIN handlers[h].inbox :
              handlers[h].inbox[k].type # "ExecuteTransaction"
    /\ \A i \in DOMAIN replies : replies[i].handled = replies[i].received

\* A snapshot has been answered after two records of one account, while
\* a later ExecuteTransaction waits in the Listener inbox.
C6_Witness ==
    /\ replies # <<>>
    /\ \E a \in AccountIds : Len(replies[1].received[a]) >= 2
    /\ rx # <<>> /\ Head(rx).type = "ExecuteTransaction"

Seen(r) == {a \in AccountIds : r.received[a] # <<>>}

\* C7: a snapshot holds exactly one Account per account id that was the
\* client of a record submitted before it, and no other; an account none
\* of whose records succeeded is there with zero balances, unlocked.  (No
\* dispute, resolve or charge-back succeeds without a successful deposit,
\* so such an account has no applied deposit or withdrawal.)
C7_SnapshotAccounts ==
    \A i \in DOMAIN replies :
        LET r == replies[i] IN
        /\ {acct.id : acct \in r.accounts} = Seen(r)
        /\ \A a \in Seen(r) : Cardinality({acct \in r.accounts : acct.id = a}) = 1
        /\ \A a \in Seen(r) :
              (\A t \in TxIds : r.applied[a][t] = 0) => AccountNew(a) \in r.accounts

\* A snapshot holds an account with a successful deposit and an account
\* whose only records failed.
C7_Witness ==
    \E i \in DOMAIN replies :
        /\ \E acct \in replies[i].accounts : acct.total > AmountZero
        /\ \E a \in Seen(replies[i]) :
              /\ \A t \in TxIds : replies[i].applied[a][t] = 0
              /\ AccountNew(a) \in replies[i].accounts

RECURSIVE SumOver(_, _)
SumOver(f, S) ==
    IF S = {} THEN 0 ELSE LET x == CHOOSE y \in S : TRUE IN f[x] + SumOver(f, S \ {x})

\* C8 as stated: over all accounts together, at most one deposit or
\* withdrawal is successfully applied per transaction id.
C8_GloballyUniqueIds ==
    \A t \in TxIds : SumOver([a \in AccountIds |-> applied[a][t]], AccountIds) <= 1

\* C8 amended: within one account, at most one deposit or withdrawal is
\* successfully applied per transaction id; a deposit or withdrawal whose
\* id is already in the history of that account is rejected.
C8_UniqueIdsPerAccount ==
    /\ \A a \in AccountIds : \A t \in TxIds : applied[a][t] <= 1
    /\ (last.err = "Ok" /\ last.tx.kind \in {"Deposit", "Withdrawal"}) =>
          last.tx.id \notin DOMAIN last.before.transaction_history

\* A deposit whose id is already in the history of its account has been
\* rejected as a duplicate.
C8_Witness ==
    /\ last.err = "DuplicateTransactionId"
    /\ applied[last.target][last.tx.id] = 1

RECURSIVE SequentialApply(_, _)
SequentialApply(st, recs) ==
    IF recs = <<>> THEN st
    ELSE LET conv == try_from(Head(recs)) IN
         SequentialApply(IF conv.ok THEN apply(conv.tx, st).state ELSE st, Tail(recs))

\* C10: every snapshot of the concurrent engine equals the result of the
\* sequential reference which, for each account independently, applies
\* the account's records in submission order to a fresh account state.
C10_SnapshotIsSequential ==
    \A i \in DOMAIN replies :
        replies[i].accounts =
            {SequentialApply(StateNew(a), replies[i].received[a]).account :
                a \in Seen(replies[i])}

\* A snapshot has been answered for two accounts, one of which received
\* a deposit and then a withdrawal.
C10_Witness ==
    \E i \in DOMAIN replies :
        /\ Cardinality(replies[i].accounts) = 2
        /\ \E a \in AccountIds :
              /\ Len(replies[i].received[a]) = 2
              /\ replies[i].received[a][1].transaction_type = "Deposit"
              /\ replies[i].received[a][2].transaction_type = "Withdrawal"

(***************************************************************************)
(* Two runs of the engine (engine::run on a fresh Listener) on a planned   *)
(* input and on the same input with two records of different accounts      *)
(* exchanged; each run ends with one GetAccountsState.                     *)
(***************************************************************************)
Inputs == UNION {[1..n -> EngineRecords] : n \in 2..MaxSubmit}

Swapped(inp, i, j) ==
    [k \in DOMAIN inp |-> IF k = i THEN inp[j] ELSE IF k = j THEN inp[i] ELSE inp[k]]

PlannedInput ==
    IF run.n = 1 THEN plan.input ELSE Swapped(plan.input, plan.i, plan.j)

EngineInit ==
    /\ accounts = <<>>
    /\ tx_handlers = <<>>
    /\ rx = <<>>
    /\ rx_closed = FALSE
    /\ listener = [pc |-> "recv", client |-> 0, pending |-> {}, cur |-> 0]
    /\ handlers = <<>>
    /\ replies = <<>>
    /\ submitted = [tx |-> 0, snap |-> 0]
    /\ received = [a \in AccountIds |-> <<>>]
    /\ handled = [a \in AccountIds |-> <<>>]
    /\ applied = [a \in AccountIds |-> [i \in TxIds |-> 0]]
    /\ last = NoLast
    /\ charged_back = [a \in AccountIds |-> {}]

InitSwap ==
    /\ EngineInit
    /\ \E inp \in Inputs : \E i, j \in DOMAIN inp :
          /\ i < j
          /\ inp[i].client # inp[j].client
          /\ plan = [input |-> inp, i |-> i, j |-> j]
    /\ run = [n |-> 1, first |-> {}]
    /\ conversion = NoConversion

SubmitPlanned ==
    /\ submitted.tx < Len(plan.input)
    /\ Len(rx) < RxCapacity
    /\ rx' = Send(rx, ExecuteTransaction(PlannedInput[submitted.tx + 1]))
    /\ submitted' = [submitted EXCEPT !.tx = @ + 1]
    /\ UNCHANGED <<accounts, tx_handlers, rx_closed, listener, handlers, replies,
                   received, handled, applied, last, charged_back,
                   plan, run, conversion>>

RequestFinal ==
    /\ submitted.tx = Len(plan.input)
    /\ submitted.snap = 0
    /\ Len(rx) < RxCapacity
    /\ rx' = Send(rx, GetAccountsState)
    /\ submitted' = [submitted EXCEPT !.snap = @ + 1]
    /\ UNCHANGED <<accounts, tx_handlers, rx_closed, listener, handlers, replies,
                   received, handled, applied, last, charged_back,
                   plan, run, conversion>>

\* The first run has answered: start the second on a fresh engine.
Restart ==
    /\ run.n = 1
    /\ replies # <<>>
    /\ run' = [n |-> 2, first |-> replies[1].accounts]
    /\ accounts' = <<>>
    /\ tx_handlers' = <<>>
    /\ rx' = <<>>
    /\ rx_closed' = FALSE
    /\ listener' = [pc |-> "recv", client |-> 0, pending |-> {}, cur |-> 0]
    /\ handlers' = <<>>
    /\ replies' = <<>>
    /\ submitted' = [tx |-> 0, snap |-> 0]
    /\ received' = [a \in AccountIds |-> <<>>]
    /\ handled' = [a \in AccountIds |-> <<>>]
    /\ applied' = [a \in AccountIds |-> [i \in TxIds |-> 0]]
    /\ last' = NoLast
    /\ charged_back' = [a \in AccountIds |-> {}]
    /\ UNCHANGED <<plan, conversion>>

NextSwap ==
    \/ SubmitPlanned
    \/ RequestFinal
    \/ Restart
    \/ ListenerExecute
    \/ ListenerSend
    \/ ListenerGetAccountsState
    \/ \E h \in HandlerIds : ListenerCommitSend(h)
    \/ ListenerCommitWait
    \/ ListenerReply
    \/ \E h \in HandlerIds : HandlerExecute(h)
    \/ \E h \in HandlerIds : HandlerCommit(h)
    \/ \E h \in HandlerIds : HandlerClose(h)
    \/ \E h \in HandlerIds : HandlerExit(h)

SpecSwap == InitSwap /\ [][NextSwap]_vars

\* C9 as stated: for any input and any two of its submissions that
\* address different accounts, the run on the input with the two exchanged
\* ends with the same snapshot, as a set of account records, as the run on
\* the input itself.
C9_SwapAcrossAccounts ==
    (run.n = 2 /\ replies # <<>>) => replies[1].accounts = run.first

\* No submission between the two exchanged ones addresses the account of
\* either.
Unseparated ==
    \A k \in DOMAIN plan.input :
        (plan.i < k /\ k < plan.j) =>
            plan.input[k].client \notin {plan.input[plan.i].client,
                                         plan.input[plan.j].client}

\* C9 amended: the same, for two submissions of different accounts with
\* no submission of either account between them (adjacent ones among
\* them).
C9_SwapUnseparated ==
    (run.n = 2 /\ replies # <<>> /\ Unseparated) => replies[1].accounts = run.first

\* Both runs have answered, for an input in which a deposit of one
\* account was exchanged with a later withdrawal of another account that
\* follows that account's deposit, all of them applied.
C9_Witness ==
    /\ run.n = 2
    /\ replies # <<>>
    /\ Unseparated
    /\ plan.input[plan.i].transaction_type = "Deposit"
    /\ plan.input[plan.j].transaction_type = "Withdrawal"
    /\ Cardinality(run.first) = 2
    /\ \E acct \in run.first : acct.total > AmountZero
    /\ \E acct \in run.first : acct.total = AmountZero /\ acct.id = plan.input[plan.j].client
    /\ applied[plan.input[plan.j].client][plan.input[plan.j].id] = 1

(***************************************************************************)
(* Laws of dispute, resolve and charge-back, checked under SpecAccount in  *)
(* every reachable state of an account.                                    *)
(***************************************************************************)
Balances(acct) == <<acct.available, acct.held, acct.total>>

DepositIds(st) ==
    {t \in DOMAIN st.transaction_history : st.transaction_history[t].kind = "Deposit"}

\* The state after Dispute(t) and then Resolve(t), both of the account of
\* st, applied to st one after the other.
DisputeThenResolve(st, t) ==
    apply(Reference("Resolve", t, st.account.id),
          apply(Reference("Dispute", t, st.account.id), st).state).state

\* C11 as stated: for a deposit D recorded in the history of an unlocked
\* account, Dispute(D) and then Resolve(D) leave available, held and total
\* as they were and leave D's disputed flag false.
C11_DisputeResolveRoundTrip ==
    \A a \in DOMAIN accounts :
        ~accounts[a].account.locked =>
            \A t \in DepositIds(accounts[a]) :
                LET after == DisputeThenResolve(accounts[a], t) IN
                /\ Balances(after.account) = Balances(accounts[a].account)
                /\ ~after.transaction_history[t].disputed

\* C11 amended: the same, for a deposit D whose disputed flag is false.
C11_UndisputedRoundTrip ==
    \A a \in DOMAIN accounts :
        ~accounts[a].account.locked =>
            \A t \in DepositIds(accounts[a]) :
                ~accounts[a].transaction_history[t].disputed =>
                    LET after == DisputeThenResolve(accounts[a], t) IN
                    /\ Balances(after.account) = Balances(accounts[a].account)
                    /\ ~after.transaction_history[t].disputed

\* A Resolve has just succeeded on a state that is exactly what a
\* successful Dispute of the same deposit makes of the present state: the
\* pair has been applied and has come back to where it started.
C11_Witness ==
    /\ last.err = "Ok" /\ last.tx.kind = "Resolve"
    /\ ~accounts[last.target].account.locked
    /\ LET r == apply(Reference("Dispute", last.tx.id, last.target),
                      accounts[last.target])
       IN r.err = "Ok" /\ r.state = last.before

(***************************************************************************)
(* Progress of the commit round, checked under SpecLive.                   *)
(***************************************************************************)
RECURSIVE CountSnapshotCommands(_)
CountSnapshotCommands(q) ==
    IF q = <<>> THEN 0
    ELSE (IF Head(q).type = "GetAccountsState" THEN 1 ELSE 0)
         + CountSnapshotCommands(Tail(q))

\* The GetAccountsState commands the Listener has taken from its inbox.
SnapshotsReceived == submitted.snap - CountSnapshotCommands(rx)

InCommitRound == listener.pc \in {"commit_send", "commit_wait", "reply"}

\* C12: under fair scheduling every GetAccountsState the Listener has
\* received is eventually answered, and at every moment the replies sent
\* are one per received command, the command of the running commit round
\* excepted; so the commit round always ends, whatever records preceded it
\* and however full the Handler inboxes are.
C12_SnapshotAnswered ==
    /\ [](Len(replies) = SnapshotsReceived - (IF InCommitRound THEN 1 ELSE 0))
    /\ \A k \in 1..MaxSnapshots :
          (SnapshotsReceived >= k) ~> (Len(replies) >= k)

\* The Listener is in a commit round and must wait for room in the inbox of
\* a Handler that still holds a record failing on its account.
C12_Witness ==
    /\ listener.pc = "commit_send"
    /\ \E h \in listener.pending :
          /\ Len(handlers[h].inbox) = InboxCapacity
          /\ \E k \in DOMAIN handlers[h].inbox :
                /\ handlers[h].inbox[k].type = "ExecuteTransaction"
                /\ handlers[h].inbox[k].rec.transaction_type = "Withdrawal"
          /\ accounts[handlers[h].account_id].account.available = AmountZero

(***************************************************************************)
(* The lock and the rejections it causes, checked under SpecAccount.       *)
(***************************************************************************)
\* The last application was a successful charge-back on account a.
ChargedBack(l, a) == l.err = "Ok" /\ l.tx.kind = "ChargeBack" /\ l.target = a

\* C13: in every state an account is locked exactly when a charge-back has
\* succeeded on it earlier in the run; a step locks it exactly when the
\* step is a successful charge-back on it, and no step unlocks it.
C13_LockedIffChargedBack ==
    /\ [](\A a \in DOMAIN accounts :
             accounts[a].account.locked <=> charged_back[a] # {})
    /\ [][\A a \in DOMAIN accounts :
             /\ accounts[a].account.locked => accounts'[a].account.locked
             /\ ~accounts[a].account.locked =>
                   (accounts'[a].account.locked <=> ChargedBack(last', a))]_vars

\* A charge-back has been applied to an account that an earlier charge-back
\* had locked.
C13_Witness ==
    /\ last.tx.kind = "ChargeBack"
    /\ last.before.account.locked
    /\ accounts[last.target].account.locked

\* The five mutators of Account, by the kind of the transaction calling them.
Mutate(kind, acct, amount) ==
    CASE kind = "Deposit" -> account_deposit(acct, amount)
      [] kind = "Withdrawal" -> account_withdrawal(acct, amount)
      [] kind = "Dispute" -> account_dispute(acct, amount)
      [] kind = "Resolve" -> account_resolve(acct, amount)
      [] kind = "ChargeBack" -> account_charge_back(acct, amount)

\* The transactions the records of the input convert to.
Transactions == {try_from(rec).tx : rec \in {r \in Records : try_from(r).ok}}

\* The transactions on the account of st.
TransactionsOn(st) == {tx \in Transactions : tx.client = st.account.id}

\* The checks Transaction::apply and the mutator make before the mutator
\* looks at the lock.
ReachesLockCheck(tx, st) ==
    /\ tx.client = st.account.id
    /\ CASE tx.kind \in {"Deposit", "Withdrawal"} ->
               tx.id \notin DOMAIN st.transaction_history /\ tx.amount > AmountZero
         [] tx.kind = "Dispute" ->
               tx.id \in DepositIds(st) /\ ~st.transaction_history[tx.id].disputed
         [] tx.kind \in {"Resolve", "ChargeBack"} ->
               tx.id \in DepositIds(st) /\ st.transaction_history[tx.id].disputed

IsLocked(r) == r.err = "Account" /\ r.inner = "Locked"

\* C14 as stated: on a locked account each mutator returns Locked for any
\* amount, and every transaction on the account fails with Account(Locked).
C14_LockedAlwaysLocked ==
    \A a \in DOMAIN accounts : accounts[a].account.locked =>
        /\ \A kind \in TransactionTypes : \A amount \in AmountMin..AmountMax :
              Mutate(kind, accounts[a].account, amount).err = "Locked"
        /\ \A tx \in TransactionsOn(accounts[a]) : IsLocked(apply(tx, accounts[a]))

\* C14: on a locked account every mutator fails and every transaction
\* applied to its state fails, leaving account and history as they are.
\* A mutator returns Locked when the amount is positive and InvalidInput
\* otherwise; a transaction fails with Account(Locked) exactly when it
\* passes the checks made before the lock is looked at.
C14_LockedRejects ==
    \A a \in DOMAIN accounts : accounts[a].account.locked =>
        /\ \A kind \in TransactionTypes : \A amount \in AmountMin..AmountMax :
              Mutate(kind, accounts[a].account, amount) =
                  AcctResult(IF amount > AmountZero THEN "Locked" ELSE "InvalidInput",
                             accounts[a].account)
        /\ \A tx \in Transactions :
              LET r == apply(tx, accounts[a]) IN
              /\ r.err # "Ok"
              /\ r.state = accounts[a]
              /\ IsLocked(r) <=> ReachesLockCheck(tx, accounts[a])

\* A Resolve of a deposit that is under dispute has been refused with
\* Account(Locked) on a locked account.
C14_Witness ==
    /\ last.err = "Account" /\ last.inner = "Locked"
    /\ last.tx.kind = "Resolve"
    /\ last.before.account.locked
    /\ last.before.transaction_history[last.tx.id].disputed

\* The result of applying a transaction of the given kind that references
\* deposit d of account a in the current state.
Refer(kind, a, d) == apply(Reference(kind, d, a), accounts[a])

\* C15 as stated: in every state after a successful charge-back of D, a
\* Dispute, a Resolve and a ChargeBack referencing D each fail with
\* Account(Locked).
C15_ClosedDepositLocked ==
    \A a \in DOMAIN accounts : \A d \in charged_back[a] :
        \A kind \in {"Dispute", "Resolve", "ChargeBack"} : IsLocked(Refer(kind, a, d))

\* C15: in every state after a successful charge-back of D, a Dispute, a
\* Resolve and a ChargeBack referencing D are each rejected and change
\* nothing; the Dispute with Account(Locked), the Resolve with Resolve and
\* the ChargeBack with ChargeBack, D's flag being false again.
C15_ClosedDepositRejects ==
    \A a \in DOMAIN accounts : \A d \in charged_back[a] :
        /\ IsLocked(Refer("Dispute", a, d))
        /\ Refer("Resolve", a, d).err = "Resolve"
        /\ Refer("ChargeBack", a, d).err = "ChargeBack"
        /\ \A kind \in {"Dispute", "Resolve", "ChargeBack"} :
              Refer(kind, a, d).state = accounts[a]

\* A Resolve of the deposit that was charged back has been refused, on an
\* account whose history holds further transactions.
C15_Witness ==
    /\ last.err = "Resolve" /\ last.tx.kind = "Resolve"
    /\ last.target \in DOMAIN accounts
    /\ last.tx.id \in charged_back[last.target]
    /\ Cardinality(DOMAIN last.before.transaction_history) > 1

(***************************************************************************)
(* Repeated references to a deposit, checked under SpecAccount.            *)
(***************************************************************************)
\* The second of two applications in a row of the same reference to
\* deposit d of account a.
Again(kind, a, d) == apply(Reference(kind, d, a), Refer(kind, a, d).state)

\* C16 as stated: for every deposit of an account, the second of two equal
\* Dispute (Resolve, ChargeBack) transactions in a row fails with Dispute
\* (Resolve, ChargeBack) and changes nothing.
C16_SecondFailsWithKind ==
    \A a \in DOMAIN accounts : \A d \in DepositIds(accounts[a]) :
        \A kind \in {"Dispute", "Resolve", "ChargeBack"} :
            /\ Again(kind, a, d).err = kind
            /\ Again(kind, a, d).state = Refer(kind, a, d).state

\* C16: for every deposit of an account, the second of two equal Dispute
\* (Resolve, ChargeBack) transactions in a row fails and changes nothing;
\* it fails with Dispute (Resolve, ChargeBack) when the first succeeded or
\* failed with that error, and repeats the first's account error when the
\* first was refused by the account.
C16_SecondFails ==
    \A a \in DOMAIN accounts : \A d \in DepositIds(accounts[a]) :
        \A kind \in {"Dispute", "Resolve", "ChargeBack"} :
            LET first == Refer(kind, a, d)
                second == Again(kind, a, d)
            IN /\ second.state = first.state
               /\ first.err \in {"Ok", kind, "Account"}
               /\ first.err \in {"Ok", kind} => second.err = kind
               /\ first.err = "Account" =>
                     second.err = "Account" /\ second.inner = first.inner

\* A ChargeBack has been refused with ChargeBack right after the same
\* ChargeBack had succeeded.
C16_Witness ==
    /\ last.err = "ChargeBack" /\ last.tx.kind = "ChargeBack"
    /\ last.target \in DOMAIN accounts
    /\ last.tx.id \in charged_back[last.target]
    /\ last.before = accounts[last.target]
    /\ Again("ChargeBack", last.target, last.tx.id).err = "ChargeBack"

(***************************************************************************)
(* What each kind of transaction does, checked under SpecAccount on every  *)
(* reachable state and every transaction the input converts to.            *)
(***************************************************************************)
\* C17: a Deposit with an id not in the history and an amount > 0, on an
\* unlocked account whose available + amount and total + amount are in
\* range, succeeds; available and total grow by the amount, held and locked
\* stay, and the history gains id -> Deposit(amount, disputed = false).
C17_DepositSucceeds ==
    \A a \in DOMAIN accounts : \A tx \in TransactionsOn(accounts[a]) :
        LET st == accounts[a]
            acct == st.account
            r == apply(tx, st)
        IN (/\ tx.kind = "Deposit"
            /\ tx.id \notin DOMAIN st.transaction_history
            /\ tx.amount > AmountZero
            /\ ~acct.locked
            /\ InRange(acct.available + tx.amount)
            /\ InRange(acct.total + tx.amount))
           => /\ r.err = "Ok"
              /\ r.state.account =
                    [acct EXCEPT !.available = acct.available + tx.amount,
                                 !.total = acct.total + tx.amount]
              /\ r.state.transaction_history =
                    Insert(st.transaction_history, tx.id,
                           Deposit(tx.id, acct.id, tx.amount, FALSE))

\* A deposit has succeeded on an account that holds disputed funds and
\* already had a transaction in its history.
C17_Witness ==
    /\ last.err = "Ok" /\ last.tx.kind = "Deposit"
    /\ last.before.account.held > AmountZero
    /\ accounts[last.target].account.available
          = last.before.account.available + last.tx.amount
    /\ last.tx.id \notin DOMAIN last.before.transaction_history

\* C18: a Withdrawal with a fresh id and an amount a > 0 on an unlocked
\* account succeeds if and only if a <= available; on success available and
\* total drop by a and the withdrawal is recorded in the history; otherwise
\* it fails with InsufficientFunds and available and total are unchanged.
C18_WithdrawalIffAvailable ==
    \A a \in DOMAIN accounts : \A tx \in TransactionsOn(accounts[a]) :
        LET st == accounts[a]
            acct == st.account
            r == apply(tx, st)
        IN (/\ tx.kind = "Withdrawal"
            /\ tx.id \notin DOMAIN st.transaction_history
            /\ tx.amount > AmountZero
            /\ ~acct.locked)
           => /\ r.err = "Ok" <=> tx.amount <= acct.available
              /\ r.err = "Ok" =>
                    /\ r.state.account =
                          [acct EXCEPT !.available = acct.available - tx.amount,
                                       !.total = acct.total - tx.amount]
                    /\ r.state.transaction_history =
                          Insert(st.transaction_history, tx.id,
                                 Withdrawal(tx.id, acct.id, tx.amount))
              /\ r.err # "Ok" =>
                    /\ r.err = "Account" /\ r.inner = "InsufficientFunds"
                    /\ r.state = st

\* C19: a Dispute succeeds only when the referenced id is a Deposit entry of
\* this account's history whose disputed flag is false; a successful Dispute
\* of a deposit of amount a lowers available by a, raises held by a, leaves
\* total and locked as they are and sets the deposit's flag to true.
C19_DisputeEffect ==
    \A a \in DOMAIN accounts : \A tx \in Transactions :
        LET st == accounts[a]
            acct == st.account
            r == apply(tx, st)
        IN tx.kind = "Dispute" /\ r.err = "Ok" =>
              /\ tx.client = acct.id
              /\ tx.id \in DepositIds(st)
              /\ ~st.transaction_history[tx.id].disputed
              /\ LET d == st.transaction_history[tx.id] IN
                 /\ r.state.account =
                       [acct EXCEPT !.available = acct.available - d.amount,
                                    !.held = acct.held + d.amount]
                 /\ r.state.transaction_history =
                       [st.transaction_history EXCEPT ![tx.id].disputed = TRUE]

\* A second deposit of an account has been disputed with success while the
\* first is still under dispute.
C19_Witness ==
    /\ last.err = "Ok" /\ last.tx.kind = "Dispute"
    /\ last.before.account.held > AmountZero
    /\ accounts[last.target].account.held > last.before.account.held
    /\ accounts[last.target].transaction_history[last.tx.id].disputed

\* C20: a Resolve succeeds only when the referenced id is a Deposit entry
\* whose disputed flag is true; it then lowers held by the deposit's amount,
\* raises available by it, leaves total and locked as they are and resets
\* the flag to false.  A Resolve on the account that references an absent id
\* or an undisputed deposit fails with Resolve and changes nothing.
C20_ResolveEffect ==
    \A a \in DOMAIN accounts : \A tx \in Transactions :
        LET st == accounts[a]
            acct == st.account
            r == apply(tx, st)
        IN tx.kind = "Resolve" =>
              /\ r.err = "Ok" =>
                    /\ tx.client = acct.id
                    /\ tx.id \in DepositIds(st)
                    /\ st.transaction_history[tx.id].disputed
                    /\ LET d == st.transaction_history[tx.id] IN
                       /\ r.state.account =
                             [acct EXCEPT !.held = acct.held - d.amount,
                                          !.available = acct.available + d.amount]
                       /\ r.state.transaction_history =
                             [st.transaction_history EXCEPT ![tx.id].disputed = FALSE]
              /\ (/\ tx.client = acct.id
                  /\ \/ tx.id \notin DOMAIN st.transaction_history
                     \/ /\ tx.id \in DepositIds(st)
                        /\ ~st.transaction_history[tx.id].disputed)
                 => r.err = "Resolve" /\ r.state = st

\* One of two deposits under dispute has been resolved with success, and
\* the same Resolve is refused with Resolve in the state reached.
C20_Witness ==
    /\ last.err = "Ok" /\ last.tx.kind = "Resolve"
    /\ accounts[last.target].account.held > AmountZero
    /\ accounts[last.target].account.held < last.before.account.held
    /\ ~accounts[last.target].transaction_history[last.tx.id].disputed
    /\ Refer("Resolve", last.target, last.tx.id).err = "Resolve"

\* C21: a ChargeBack succeeds only when the referenced id is a Deposit entry
\* whose disputed flag is true; it then lowers held and total by the
\* deposit's amount, leaves available as it is, sets locked and resets the
\* flag to false.  A ChargeBack on the account that references an absent id
\* or an undisputed deposit fails with ChargeBack, changes nothing and so
\* does not lock the account.
C21_ChargeBackEffect ==
    \A a \in DOMAIN accounts : \A tx \in Transactions :
        LET st == accounts[a]
            acct == st.account
            r == apply(tx, st)
        IN tx.kind = "ChargeBack" =>
              /\ r.err = "Ok" =>
                    /\ tx.client = acct.id
                    /\ tx.id \in DepositIds(st)
                    /\ st.transaction_history[tx.id].disputed
                    /\ LET d == st.transaction_history[tx.id] IN
                       /\ r.state.account =
                             [acct EXCEPT !.held = acct.held - d.amount,
                                          !.total = acct.total - d.amount,
                                          !.locked = TRUE]
                       /\ r.state.transaction_history =
                             [st.transaction_history EXCEPT ![tx.id].disputed = FALSE]
              /\ (/\ tx.client = acct.id
                  /\ \/ tx.id \notin DOMAIN st.transaction_history
                     \/ /\ tx.id \in DepositIds(st)
                        /\ ~st.transaction_history[tx.id].disputed)
                 => /\ r.err = "ChargeBack"
                    /\ r.state = st
                    /\ r.state.account.locked = acct.locked

\* One of two deposits under dispute has been charged back: the account is
\* locked with the other deposit's amount still held.
C21_Witness ==
    /\ last.err = "Ok" /\ last.tx.kind = "ChargeBack"
    /\ ~last.before.account.locked
    /\ accounts[last.target].account.locked
    /\ accounts[last.target].account.held > AmountZero
    /\ accounts[last.target].account.total < last.before.account.total

(***************************************************************************)
(* The errors of Transaction::apply and their precedence, checked under    *)
(* SpecAccount on every reachable state.                                   *)
(***************************************************************************)
\* C22: a Dispute of an undisputed deposit of amount a on an unlocked
\* account whose available is less than a fails with InsufficientFunds and
\* leaves the deposit undisputed and available, held and total as they
\* are; no Dispute returns a state with available below zero.
C22_DisputeInsufficientFunds ==
    \A a \in DOMAIN accounts : \A tx \in TransactionsOn(accounts[a]) :
        LET st == accounts[a]
            acct == st.account
            r == apply(tx, st)
        IN tx.kind = "Dispute" =>
              /\ r.state.account.available >= AmountZero
              /\ (/\ tx.id \in DepositIds(st)
                  /\ ~st.transaction_history[tx.id].disputed
                  /\ ~acct.locked
                  /\ acct.available < st.transaction_history[tx.id].amount)
                 => /\ r.err = "Account" /\ r.inner = "InsufficientFunds"
                    /\ ~r.state.transaction_history[tx.id].disputed
                    /\ Balances(r.state.account) = Balances(acct)
                    /\ r.state = st

\* A Dispute of a deposit has been refused for insufficient funds after a
\* withdrawal took the deposited funds.
C22_Witness ==
    /\ last.err = "Account" /\ last.inner = "InsufficientFunds"
    /\ last.tx.kind = "Dispute"
    /\ \E w \in DOMAIN last.before.transaction_history :
          last.before.transaction_history[w].kind = "Withdrawal"
    /\ ~accounts[last.target].transaction_history[last.tx.id].disputed
    /\ accounts[last.target].account.available
          < accounts[last.target].transaction_history[last.tx.id].amount

\* C23: a Deposit or Withdrawal on the account whose id is already a key of
\* the account's history, be the entry a deposit or a withdrawal, fails
\* with DuplicateTransactionId and leaves the state as it is, whatever its
\* amount and whether or not the account is locked or the funds suffice.
C23_DuplicateFirst ==
    \A a \in DOMAIN accounts : \A tx \in TransactionsOn(accounts[a]) :
        LET r == apply(tx, accounts[a]) IN
        (/\ tx.kind \in {"Deposit", "Withdrawal"}
         /\ tx.id \in DOMAIN accounts[a].transaction_history)
        => /\ r.err = "DuplicateTransactionId"
           /\ r.state = accounts[a]

\* A Withdrawal with a non-positive amount and the id of a recorded deposit
\* has been refused as a duplicate on a locked account.
C23_Witness ==
    /\ last.err = "DuplicateTransactionId"
    /\ last.tx.kind = "Withdrawal"
    /\ last.tx.amount <= AmountZero
    /\ last.before.account.locked
    /\ last.before.transaction_history[last.tx.id].kind = "Deposit"

\* C24: a transaction of any kind whose account id differs from the id of
\* the state it is applied to fails with InvalidAccountId and leaves the
\* state as it is, whatever the history holds under its id, whatever its
\* amount and whether or not the account is locked.
C24_InvalidAccountIdFirst ==
    \A a \in DOMAIN accounts : \A tx \in Transactions :
        LET r == apply(tx, accounts[a]) IN
        tx.client # accounts[a].account.id
        => /\ r.err = "InvalidAccountId"
           /\ r.state = accounts[a]

\* A Deposit of another client, with a non-positive amount and an id that
\* the history holds, has been refused with InvalidAccountId on a locked
\* account.
C24_Witness ==
    /\ last.err = "InvalidAccountId"
    /\ last.tx.kind = "Deposit"
    /\ last.tx.client # last.before.account.id
    /\ last.tx.amount <= AmountZero
    /\ last.tx.id \in DOMAIN last.before.transaction_history
    /\ last.before.account.locked

WithdrawalIds(st) ==
    {t \in DOMAIN st.transaction_history :
        st.transaction_history[t].kind = "Withdrawal"}

IsInvalidInput(r) == r.err = "Account" /\ r.inner = "InvalidInput"

\* C26 as stated: every Deposit or Withdrawal on the account whose amount
\* is zero or negative fails with Account(InvalidInput) and changes nothing.
C26_NonPositiveInvalidInput ==
    \A a \in DOMAIN accounts : \A tx \in TransactionsOn(accounts[a]) :
        (tx.kind \in {"Deposit", "Withdrawal"} /\ tx.amount <= AmountZero)
        => /\ IsInvalidInput(apply(tx, accounts[a]))
           /\ apply(tx, accounts[a]).state = accounts[a]

\* C26: a Deposit or Withdrawal whose amount is zero or negative fails,
\* changes no balance and is not recorded; it fails with
\* Account(InvalidInput) when it is on the account and its id is not in the
\* history, also on a locked account, with InvalidAccountId when it is of
\* another account and with DuplicateTransactionId when it is on the
\* account and its id is in the history.  The mutators deposit and
\* withdrawal return InvalidInput for every such amount.
C26_NonPositiveRejected ==
    \A a \in DOMAIN accounts :
        /\ \A kind \in {"Deposit", "Withdrawal"} : \A amount \in AmountMin..AmountZero :
              Mutate(kind, accounts[a].account, amount) =
                  AcctResult("InvalidInput", accounts[a].account)
        /\ \A tx \in Transactions :
              LET st == accounts[a]
                  r == apply(tx, st)
              IN (tx.kind \in {"Deposit", "Withdrawal"} /\ tx.amount <= AmountZero)
                 => /\ r.err # "Ok"
                    /\ r.state = st
                    /\ IF tx.client # st.account.id THEN r.err = "InvalidAccountId"
                       ELSE IF tx.id \in DOMAIN st.transaction_history
                       THEN r.err = "DuplicateTransactionId"
                       ELSE IsInvalidInput(r)

\* A Withdrawal with a negative amount and a fresh id has been refused with
\* Account(InvalidInput) on a locked account.
C26_Witness ==
    /\ last.err = "Account" /\ last.inner = "InvalidInput"
    /\ last.tx.kind = "Withdrawal"
    /\ last.tx.amount < AmountZero
    /\ last.before.account.locked
    /\ accounts[last.target] = last.before

(***************************************************************************)
(* Amount arithmetic, checked under SpecAccount for every pair of Amounts  *)
(* and for the deposits of every reachable state.                          *)
(***************************************************************************)
Amounts == AmountMin..AmountMax

Consumes(h) ==
    /\ handlers[h].inbox # <<>>
    /\ Head(handlers[h].inbox).type = "ExecuteTransaction"
    /\ handled'[handlers[h].account_id] =
          Append(handled[handlers[h].account_id], Head(handlers[h].inbox).rec)

\* C28: a Handler that takes a record of another client, or one that does
\* not convert, applies nothing and leaves every account as it is; a record
\* that converts is applied to the Handler's account; in each case, and
\* whether or not the application fails, the Handler stays in its loop with
\* the later commands of its inbox, and under fair scheduling it consumes
\* every record it was sent.
C28_HandlerDropsAndContinues ==
    /\ [][\A h \in DOMAIN handlers : Consumes(h) =>
             LET rec == Head(handlers[h].inbox).rec IN
             /\ handlers'[h].pc = "recv"
             /\ handlers'[h].inbox = Tail(handlers[h].inbox)
             /\ Dropped(h, rec) => accounts' = accounts /\ last' = last
             /\ ~Dropped(h, rec) =>
                   /\ last'.tx = try_from(rec).tx
                   /\ last'.target = handlers[h].account_id
                   /\ accounts'[last'.target] = apply(last'.tx, accounts[last'.target]).state]_vars
    /\ \A k \in 1..MaxSubmit :
          (Len(received[HarnessClient]) >= k) ~> (Len(handled[HarnessClient]) >= k)

\* The Handler has taken a record of another client, later a record that
\* does not convert, and a withdrawal whose application failed for
\* insufficient funds, and is in its loop.
C28_Witness ==
    /\ \E i, j \in DOMAIN handled[HarnessClient] :
          /\ i < j
          /\ handled[HarnessClient][i].client # HarnessClient
          /\ ~try_from(handled[HarnessClient][j]).ok
    /\ \E i \in DOMAIN handled[HarnessClient] :
          handled[HarnessClient][i].transaction_type = "Withdrawal"
    /\ accounts[HarnessClient].account.available = AmountZero
    /\ last.err = "Account" /\ last.inner = "InsufficientFunds"
    /\ handlers[HarnessHandler].pc = "recv"

(***************************************************************************)
(* Record conversion, checked under SpecConvert.                           *)
(***************************************************************************)
\* C29: a deposit or withdrawal record without an amount fails conversion
\* with Deposit or Withdrawal respectively; a dispute, resolve or chargeback
\* record converts with or without an amount; every converted transaction
\* has the record's type, transaction id and client id, and a converted
\* deposit has disputed = false.
C29_RecordConversion ==
    conversion.done =>
        LET rec == conversion.record
            r == conversion.result
        IN /\ (rec.transaction_type \in {"Deposit", "Withdrawal"} /\ ~rec.amount.some)
              => ~r.ok /\ r.err = rec.transaction_type
           /\ rec.transaction_type \in {"Dispute", "Resolve", "ChargeBack"} => r.ok
           /\ r.ok => /\ r.tx.kind = rec.transaction_type
                      /\ r.tx.id = rec.id
                      /\ r.tx.client = rec.client
           /\ (r.ok /\ rec.transaction_type = "Deposit") => ~r.tx.disputed

\* A chargeback record that carries an amount, with a transaction id
\* different from its client id, has been converted.
C29_Witness ==
    /\ conversion.done
    /\ conversion.record.transaction_type = "ChargeBack"
    /\ conversion.record.amount.some
    /\ conversion.record.id # conversion.record.client
    /\ conversion.result.ok

IsExecute(m) == m.type = "ExecuteTransaction"

\* The records of the ExecuteTransaction commands of a queue, in order.
ExecRecords(q) ==
    [k \in 1..Len(SelectSeq(q, IsExecute)) |-> SelectSeq(q, IsExecute)[k].rec]

\* The step in which Handler h takes a Commit and answers it.
AnswersCommit(h) ==
    /\ handlers[h].pc = "recv"
    /\ handlers[h].inbox # <<>>
    /\ Head(handlers[h].inbox).type = "Commit"
    /\ handlers'[h].inbox = Tail(handlers[h].inbox)

\* C30: when a Handler answers a Commit it has consumed every record that
\* was enqueued before the Commit (the records it accepted are those it has
\* consumed followed by those behind the Commit in its inbox); the answer
\* is followed by the closing of the inbox; a closed inbox stays closed and
\* takes no further command; and under fair scheduling a Handler that has
\* answered closes, drains its inbox and terminates.
C30_CommitProtocol ==
    /\ [][\A h \in DOMAIN handlers :
             /\ AnswersCommit(h) =>
                   /\ handled[handlers[h].account_id]
                         \o ExecRecords(Tail(handlers[h].inbox))
                      = received[handlers[h].account_id]
                   /\ handlers'[h].commit = "sent"
                   /\ handlers'[h].pc = "closing"
             /\ (handlers[h].pc = "closing" /\ handlers'[h].pc # "closing") =>
                   handlers'[h].closed
             /\ handlers[h].closed =>
                   /\ handlers'[h].closed
                   /\ Len(handlers'[h].inbox) <= Len(handlers[h].inbox)]_vars
    /\ (handlers[HarnessHandler].commit = "sent") ~>
          (/\ handlers[HarnessHandler].closed
           /\ handlers[HarnessHandler].inbox = <<>>
           /\ handlers[HarnessHandler].pc = "done")

\* A Handler has answered a Commit after consuming two records sent before
\* it, has closed its inbox and terminated, and a record sent afterwards
\* was refused.
C30_Witness ==
    /\ handlers[HarnessHandler].commit = "sent"
    /\ handlers[HarnessHandler].closed
    /\ handlers[HarnessHandler].pc = "done"
    /\ Len(handled[HarnessClient]) = 2
    /\ handled[HarnessClient] = received[HarnessClient]
    /\ submitted.tx = 3

(***************************************************************************)
(* Handlers and accounts, checked under Spec.                              *)
(***************************************************************************)
\* A Handler that has not left its loop and has a record waiting in its
\* inbox.
HasPending(h) ==
    /\ handlers[h].pc \notin {"done", "failed"}
    /\ \E i \in DOMAIN handlers[h].inbox : IsExecute(handlers[h].inbox[i])

\* C31: an entry of the account map changes only in a step in which a
\* Handler with that account id consumes a record, such a step changes no
\* entry of another account, and at every moment at most one Handler of an
\* account has records waiting in its inbox, the Handlers spawned after a
\* snapshot for an account known before included.
C31_OneHandlerPerAccount ==
    /\ [](\A h1, h2 \in DOMAIN handlers :
             (/\ h1 # h2
              /\ handlers[h1].account_id = handlers[h2].account_id
              /\ HasPending(h1)) => ~HasPending(h2))
    /\ [][/\ \A a \in DOMAIN accounts :
                accounts'[a] # accounts[a] =>
                   \E h \in DOMAIN handlers :
                      Consumes(h) /\ handlers[h].account_id = a
          /\ \A h \in DOMAIN handlers :
                Consumes(h) =>
                   \A a \in DOMAIN accounts :
                      a # handlers[h].account_id => accounts'[a] = accounts[a]]_vars

\* After a snapshot a second Handler was spawned for account 1, it has a
\* record waiting and the first Handler of the account has not yet left its
\* loop, while a Handler of another account has changed that account.
C31_Witness ==
    /\ replies # <<>>
    /\ \E h1, h2 \in DOMAIN handlers :
          /\ h1 < h2
          /\ handlers[h1].account_id = 1 /\ handlers[h2].account_id = 1
          /\ handlers[h1].pc \notin {"done", "failed"}
          /\ HasPending(h2)
    /\ accounts[1].account.total = 1
    /\ MaxAccountId \in DOMAIN accounts

\* The records waiting in the inboxes of the Handlers 1..n of account a,
\* in the order of spawning.
RECURSIVE Queued(_, _)
Queued(a, n) ==
    IF n = 0 THEN <<>>
    ELSE Queued(a, n - 1) \o (IF handlers[n].account_id = a
                              THEN ExecRecords(handlers[n].inbox)
                              ELSE <<>>)

\* The record the Listener has received for account a and not yet put in
\* an inbox.
InHand(a) ==
    IF listener.pc = "send" /\ listener.client = a
    THEN <<received[a][listener.cur]>>
    ELSE <<>>

\* The Listener is sending a record to a Handler whose inbox is full.
Backpressure ==
    /\ listener.pc = "send"
    /\ Len(handlers[tx_handlers[listener.client]].inbox) >= InboxCapacity

\* C32: no inbox ever holds more commands than its capacity; while the
\* inbox it sends to is full the Listener does not move and the record it
\* holds is kept; when the send completes the record is the new last
\* command of that inbox, behind the commands that were there; and at
\* every moment the records the Listener received for an account are those
\* its Handlers consumed, followed by those waiting in an inbox, followed
\* by the one the Listener holds.
C32_BoundedInbox ==
    /\ [](/\ \A h \in DOMAIN handlers : Len(handlers[h].inbox) <= InboxCapacity
          /\ \A a \in AccountIds :
                received[a] = handled[a] \o Queued(a, Len(handlers)) \o InHand(a))
    /\ [][/\ Backpressure => listener' = listener /\ received' = received
          /\ (listener.pc = "send" /\ listener'.pc # "send") =>
                LET h == tx_handlers[listener.client] IN
                handlers'[h].inbox =
                   Append(handlers[h].inbox,
                          ExecuteTransaction(received[listener.client][listener.cur]))]_vars

\* The Listener waits with the third record of account 1 in hand while the
\* inbox of its Handler is full with the first two.
C32_Witness ==
    /\ Backpressure
    /\ listener.client = 1
    /\ Len(received[1]) = 3
    /\ handled[1] = <<>>
    /\ Len(Queued(1, Len(handlers))) = InboxCapacity

(***************************************************************************)
(* Shutdown, checked under SpecLive.                                       *)
(***************************************************************************)
\* The Listener and every Handler have left their loops.
AllTerminated ==
    /\ listener.pc = "done"
    /\ \A h \in DOMAIN handlers : handlers[h].pc = "done"

\* C33: once the inbound channel is closed, under fair scheduling the
\* Listener leaves its loop and every Handler terminates; a Handler that
\* has terminated has an empty inbox, and when all have terminated every
\* record the Listener received for an account has been consumed by a
\* Handler of that account.
C33_Shutdown ==
    /\ [](\A h \in DOMAIN handlers :
             handlers[h].pc = "done" => handlers[h].inbox = <<>>)
    /\ [](AllTerminated => \A a \in AccountIds : handled[a] = received[a])
    /\ rx_closed ~> AllTerminated

\* Without any snapshot, the Listener and the Handlers of two accounts
\* have terminated after the Handler of account 1 consumed two records.
C33_Witness ==
    /\ AllTerminated
    /\ submitted.snap = 0
    /\ Len(handlers) = 2
    /\ Len(handled[1]) = 2
    /\ handled[MaxAccountId] # <<>>

(***************************************************************************)
(* Snapshots and the account map, checked under Spec.                      *)
(***************************************************************************)
\* The step in which the Listener spawns a Handler.
Spawns == Len(handlers') = Len(handlers) + 1

\* The step in which the Listener answers a GetAccountsState.
Replies == Len(replies') = Len(replies) + 1

\* C34: the step that answers a GetAccountsState leaves the worker table
\* empty and the account map as it was; a record received afterwards for
\* an account that has no worker makes the Listener spawn a Handler with
\* that account id and register it; the spawning leaves the entry of an
\* account already in the map untouched (balances, lock flag and history)
\* and creates a fresh entry only for an account not in the map; and a
\* Handler applies every record it does not drop to the entry found in the
\* map at that moment.
C34_StateSurvivesSnapshot ==
    [][/\ Replies => tx_handlers' = <<>> /\ accounts' = accounts
       /\ (listener.pc = "recv" /\ listener'.pc = "send") =>
             LET c == listener'.client IN
             /\ c \in DOMAIN tx_handlers'
             /\ handlers'[tx_handlers'[c]].account_id = c
             /\ Spawns <=> c \notin DOMAIN tx_handlers
       /\ Spawns =>
             LET c == handlers'[Len(handlers')].account_id IN
             /\ tx_handlers'[c] = Len(handlers')
             /\ \A a \in DOMAIN accounts : accounts'[a] = accounts[a]
             /\ c \notin DOMAIN accounts => accounts' = (c :> StateNew(c)) @@ accounts
       /\ \A h \in DOMAIN handlers :
             (Consumes(h) /\ ~Dropped(h, Head(handlers[h].inbox).rec)) =>
                LET a == handlers[h].account_id
                    tx == try_from(Head(handlers[h].inbox).rec).tx
                IN accounts'[a] = apply(tx, accounts[a]).state]_vars

\* The deposit of account 1 was applied before the snapshot; afterwards a
\* second Handler of account 1 applied a withdrawal of the deposited
\* amount, which succeeded.
C34_Witness ==
    /\ Len(replies) = 1
    /\ Len(replies[1].handled[1]) = 1
    /\ replies[1].handled[1][1].transaction_type = "Deposit"
    /\ \E a \in replies[1].accounts : a.id = 1 /\ a.total = 1
    /\ Len(handled[1]) = 2
    /\ handled[1][2].transaction_type = "Withdrawal"
    /\ last.err = "Ok" /\ last.target = 1
    /\ accounts[1].account.total = AmountZero
    /\ \E h1, h2 \in DOMAIN handlers :
          h1 # h2 /\ handlers[h1].account_id = 1 /\ handlers[h2].account_id = 1

(***************************************************************************)
(* Balances and the history, checked under SpecAccount.                    *)
(***************************************************************************)
\* The deposits of the history whose disputed flag is set.
DisputedIds(st) == {t \in DepositIds(st) : st.transaction_history[t].disputed}

\* C35: in every reachable state of an account, held is the sum of the
\* amounts of the deposits of its history that are flagged disputed.
C35_HeldIsDisputedSum ==
    \A a \in DOMAIN accounts :
       LET st == accounts[a] IN
       st.account.held =
          SumOver([t \in DisputedIds(st) |-> st.transaction_history[t].amount],
                  DisputedIds(st))

\* Two deposits of different amounts are both disputed and held is their
\* sum.
C35_Witness ==
    \E a \in DOMAIN accounts :
       /\ Cardinality(DisputedIds(accounts[a])) = 2
       /\ \E t, u \in DisputedIds(accounts[a]) :
             accounts[a].transaction_history[t].amount
                # accounts[a].transaction_history[u].amount
       /\ accounts[a].account.held = AmountMax

\* The sum of the amounts of the history entries of st with an id in S.
AmountOf(st, S) == SumOver([t \in S |-> st.transaction_history[t].amount], S)

\* C36: in every reachable state of an account, the deposits and
\* withdrawals of its history are those that were applied successfully,
\* each once; at most one deposit was charged back; and total is the sum of
\* the amounts of the applied deposits, less the amounts of the applied
\* withdrawals, less the amount of the charged-back deposit if there is
\* one.
C36_TotalIsNetSum ==
    \A a \in DOMAIN accounts :
       LET st == accounts[a] IN
       /\ \A t \in TxIds :
             applied[a][t] = IF t \in DOMAIN st.transaction_history THEN 1 ELSE 0
       /\ DOMAIN st.transaction_history = DepositIds(st) \cup WithdrawalIds(st)
       /\ charged_back[a] \subseteq DepositIds(st)
       /\ Cardinality(charged_back[a]) <= 1
       /\ st.account.total =
             AmountOf(st, DepositIds(st)) - AmountOf(st, WithdrawalIds(st))
                - AmountOf(st, charged_back[a])

\* Two deposits were applied and the larger one charged back: total is the
\* amount of the other.
C36_Witness ==
    \E a \in DOMAIN accounts :
       /\ Cardinality(DepositIds(accounts[a])) = 2
       /\ charged_back[a] # {}
       /\ AmountOf(accounts[a], charged_back[a]) = 2
       /\ accounts[a].account.total = 1

(***************************************************************************)
(* Closing a dispute, checked under SpecAccount.                           *)
(***************************************************************************)
\* C37: in every reachable state, a Resolve of the account that references
\* a deposit of its history flagged disputed succeeds if the account is not
\* locked.
C37_ResolveSucceeds ==
    \A a \in DOMAIN accounts :
       ~accounts[a].account.locked =>
          \A d \in DisputedIds(accounts[a]) : Refer("Resolve", a, d).err = "Ok"

\* C38: in every reachable state, a ChargeBack of the account that
\* references a deposit of its history flagged disputed succeeds and locks
\* the account if the account is not locked.
C38_ChargeBackSucceeds ==
    \A a \in DOMAIN accounts :
       ~accounts[a].account.locked =>
          \A d \in DisputedIds(accounts[a]) :
             /\ Refer("ChargeBack", a, d).err = "Ok"
             /\ Refer("ChargeBack", a, d).state.account.locked

(***************************************************************************)
(* The entry a Handler looks up, checked under Spec.                       *)
(***************************************************************************)
\* C39: no Handler ever leaves its loop with InvalidState; the account id
\* of every Handler has an entry in the account map from the moment the
\* Handler exists; no step removes an entry; and every record in the inbox
\* of a Handler has the Handler's account id as client.
C39_NoInvalidState ==
    /\ [](\A h \in DOMAIN handlers :
             /\ handlers[h].pc # "failed"
             /\ handlers[h].account_id \in DOMAIN accounts
             /\ \A i \in DOMAIN handlers[h].inbox :
                   IsExecute(handlers[h].inbox[i]) =>
                      handlers[h].inbox[i].rec.client = handlers[h].account_id)
    /\ [][DOMAIN accounts \subseteq DOMAIN accounts']_vars

\* The Handlers of two accounts have each looked up their entry and
\* applied a record to it, the second while the first still had a record
\* waiting.
C39_Witness ==
    /\ Len(handlers) = 2
    /\ handlers[1].account_id # handlers[2].account_id
    /\ handled[handlers[1].account_id] # <<>>
    /\ handled[handlers[2].account_id] # <<>>
    /\ last.target = handlers[2].account_id
    /\ last.err = "Ok"
    /\ HasPending(1)

(***************************************************************************)
(* Repeated snapshots.  The engine runs above ask for the accounts         *)
(* MaxSnapshots times; the runs below ask MaxRequests times, with the      *)
(* records of LiveRecords.                                                 *)
(***************************************************************************)
MaxRequests == 2

RequestAgain ==
    /\ ~rx_closed
    /\ submitted.snap < MaxRequests
    /\ Len(rx) < RxCapacity
    /\ rx' = Send(rx, GetAccountsState)
    /\ submitted' = [submitted EXCEPT !.snap = @ + 1]
    /\ UNCHANGED <<accounts, tx_handlers, rx_closed, listener, handlers, replies,
                   received, handled, applied, last, charged_back,
                   plan, run, conversion>>

NextCopy ==
    \/ \E rec \in LiveRecords : Submit(rec)
    \/ RequestAgain
    \/ CloseInput
    \/ ListenerExecute
    \/ ListenerSend
    \/ ListenerGetAccountsState
    \/ \E h \in HandlerIds : ListenerCommitSend(h)
    \/ ListenerCommitWait
    \/ ListenerReply
    \/ ListenerExit
    \/ \E h \in HandlerIds : HandlerExecute(h)
    \/ \E h \in HandlerIds : HandlerCommit(h)
    \/ \E h \in HandlerIds : HandlerClose(h)
    \/ \E h \in HandlerIds : HandlerExit(h)

SpecCopy == Init /\ [][NextCopy]_vars

\* C40: the step that answers a GetAccountsState changes no account; two
\* answers between which the Listener received no ExecuteTransaction hold
\* the same set of accounts; and an answer, once given, is never changed
\* by a later step, whatever happens to the accounts.
C40_SnapshotIsCopy ==
    /\ [](\A i, j \in DOMAIN replies :
             replies[i].received = replies[j].received =>
                replies[i].accounts = replies[j].accounts)
    /\ [][/\ Replies => accounts' = accounts
          /\ \A i \in DOMAIN replies : replies'[i] = replies[i]]_vars

\* Two snapshots were taken one after the other with the deposit of
\* account 1 applied before both, and a withdrawal applied afterwards has
\* changed the account, which is no longer as either answer shows it.
C40_Witness ==
    /\ Len(replies) = 2
    /\ replies[1].received = replies[2].received
    /\ \E a \in replies[2].accounts : a.id = 1 /\ a.total = 1
    /\ accounts[1].account.total = AmountZero
    /\ accounts[1].account \notin replies[2].accounts
    /\ last.err = "Ok" /\ last.tx.kind = "Withdrawal"

====
